---- MODULE Spec2Model ----
(***************************************************************************)
(* A model of the SMB server setup script (src/main.py).                   *)
(*                                                                         *)
(* Two specifications share the variables below.                           *)
(*   Spec         the start of SMBServerSetup.setup(): the root check, the *)
(*                share directory check and the two timed prompts,         *)
(*                select_network_binding and select_smb_version, stepped   *)
(*                at every wait for console input (select.select) and at   *)
(*                the second interface detection.                          *)
(*   SpecCascade  the fallback cascades get_nobody_user_group,             *)
(*                get_samba_service_names, detect_os and                   *)
(*                configure_firewall, each applied to a host drawn from a  *)
(*                bounded set of hosts.                                    *)
(*                                                                         *)
(* Environment: which executables are installed and how a probing command  *)
(* exits are facts of the host, constant during one session (the record    *)
(* host).  What the console delivers at each polling tick, which           *)
(* interfaces a detection lists and whether os.makedirs succeeds are       *)
(* chosen anew at every call.                                              *)
(***************************************************************************)
EXTENDS Integers, Sequences, FiniteSets, TLC

\* ------------------------------------------------------------------ bounds
\* longest console line (in characters) the model types at a prompt
MaxLineLen == 2
\* longest list of addresses one interface detection reports
MaxIfaces == 2

\* ------------------------------------------------------- program constants
\* range(60, 0, -1) in select_network_binding, timeout = 60 in
\* select_smb_version
Timeout == 60

\* setup.monitor_samba_logs(300) in main, line 1491
MonitorDuration == 300

\* duration=60 of monitor_samba_logs and of the debug session, line 1339
DefaultDuration == 60

\* Python's None for a line of input, for an address and for a name
NoneLine == <<"None">>
NoneIp == <<>>
NoneName == "None"

\* ------------------------------------------------------------ console text
\* characters the model types: blank, digits, a sign, a letter
Chars == {" ", "0", "1", "2", "-", "a"}

Digits == {"0", "1", "2", "3", "4", "5", "6", "7", "8", "9"}

DigitVal(c) ==
  CASE c = "0" -> 0 [] c = "1" -> 1 [] c = "2" -> 2 [] c = "3" -> 3
    [] c = "4" -> 4 [] c = "5" -> 5 [] c = "6" -> 6 [] c = "7" -> 7
    [] c = "8" -> 8 [] c = "9" -> 9

\* every line of at most n characters
RECURSIVE LinesUpTo(_)
LinesUpTo(n) ==
  IF n = 0 THEN {<<>>}
  ELSE LET shorter == LinesUpTo(n - 1)
       IN shorter \cup {Append(l, c) : l \in shorter, c \in Chars}

Lines == LinesUpTo(MaxLineLen)

\* str.strip(): drop leading and trailing whitespace
RECURSIVE LStrip(_)
LStrip(s) ==
  IF s # <<>> /\ Head(s) = " " THEN LStrip(Tail(s)) ELSE s

RECURSIVE RStrip(_)
RStrip(s) ==
  IF s # <<>> /\ s[Len(s)] = " " THEN RStrip(SubSeq(s, 1, Len(s) - 1)) ELSE s

Strip(s) == RStrip(LStrip(s))

\* value of a non-empty string of decimal digits
RECURSIVE DigitsVal(_)
DigitsVal(s) ==
  IF s = <<>> THEN 0
  ELSE 10 * DigitsVal(SubSeq(s, 1, Len(s) - 1)) + DigitVal(s[Len(s)])

AllDigits(s) == s # <<>> /\ \A i \in 1..Len(s) : s[i] \in Digits

\* a lenient parse that skips every character that is not a digit
ParseInt_lenient(text) ==
  LET body == SelectSeq(text, LAMBDA c : c \in Digits)
  IN IF body # <<>> THEN [ok |-> TRUE, val |-> DigitsVal(body)]
     ELSE [ok |-> FALSE, val |-> 0]

\* int(text): surrounding whitespace ignored, an optional sign, then decimal
\* digits; anything else raises ValueError (ok = FALSE)
ParseInt(text) ==
  LET s == Strip(text)
      neg == s # <<>> /\ Head(s) = "-"
      body == IF neg THEN Tail(s) ELSE s
  IN IF AllDigits(body)
     THEN [ok |-> TRUE, val |-> IF neg THEN 0 - DigitsVal(body) ELSE DigitsVal(body)]
     ELSE [ok |-> FALSE, val |-> 0]

\* ------------------------------------------------------ interface detection
\* addresses as tuples of octets
LoopbackIp == <<127, 0, 0, 1>>
IpA == <<10, 0, 0, 1>>
IpB == <<10, 0, 0, 2>>

\* the (interface, address) pairs 'ip -4 addr show' can print
IpEntries ==
  { [name |-> "lo", ip |-> LoopbackIp],
    [name |-> "eth0", ip |-> IpA],
    [name |-> "eth1", ip |-> IpB],
    [name |-> "virbr0", ip |-> IpA] }

RECURSIVE SeqsUpTo(_, _)
SeqsUpTo(S, n) ==
  IF n = 0 THEN {<<>>}
  ELSE LET shorter == SeqsUpTo(S, n - 1)
       IN shorter \cup {Append(q, x) : q \in shorter, x \in S}

\* outputs of 'ip -4 addr show' and of 'hostname -I'
IpOutputs == SeqsUpTo(IpEntries, MaxIfaces)
HostnameOutputs == SeqsUpTo({LoopbackIp, IpA, IpB}, MaxIfaces)

\* ip_addr.startswith('127.')
StartsWith127(ip) == ip[1] = 127

\* f'interface{i+1}' for i = 0, 1, ...
InterfaceNames == <<"interface1", "interface2", "interface3", "interface4">>

\* the hostname fallback: position i of the output names interface{i}, the
\* loopback addresses are dropped afterwards
RECURSIVE HostnameInterfaces(_, _)
HostnameInterfaces(ips, i) ==
  IF i > Len(ips) THEN <<>>
  ELSE LET rest == HostnameInterfaces(ips, i + 1)
       IN IF StartsWith127(ips[i]) THEN rest
          ELSE <<[name |-> InterfaceNames[i], ip |-> ips[i]]>> \o rest

NotLoopback(e) == ~StartsWith127(e.ip)

Returned(v) == [kind |-> "return", value |-> v]
Raised(e) == [kind |-> "raise", value |-> e]

\* get_network_interfaces on host h when 'ip' prints ipOut and 'hostname -I'
\* prints hostOut.  Only CalledProcessError is caught: an executable that is
\* not installed raises FileNotFoundError out of the method.
get_network_interfaces(h, ipOut, hostOut) ==
  IF h.ip = "missing" THEN Raised("FileNotFoundError")
  ELSE IF h.ip = "ok" THEN Returned(SelectSeq(ipOut, NotLoopback))
  ELSE IF h.hostname = "missing" THEN Raised("FileNotFoundError")
  ELSE IF h.hostname = "ok" THEN Returned(HostnameInterfaces(hostOut, 1))
  ELSE Returned(<<>>)

\* every outcome one detection can have on host h
Detections(h) ==
  IF h.ip = "ok" THEN {get_network_interfaces(h, o, <<>>) : o \in IpOutputs}
  ELSE IF h.ip = "fail" /\ h.hostname = "ok"
       THEN {get_network_interfaces(h, <<>>, o) : o \in HostnameOutputs}
  ELSE {get_network_interfaces(h, <<>>, <<>>)}

\* ------------------------------------------------------------------- hosts
ToolStates == {"ok", "fail", "missing"}

\* executables the session launches and a host may lack; chown, ping, ss and
\* uname are taken to be installed everywhere, testparm and smbclient come
\* with their packages
Tools ==
  {"id", "getent", "systemctl", "which", "dnf", "firewall-cmd", "ufw", "iptables",
   "apt", "yum", "pacman", "zypper", "getenforce", "semanage", "tail"}

\* texts that the code searches with the 'in' operator
ACTIVE == <<"a", "c", "t", "i", "v", "e">>
INACTIVE == <<"i", "n">> \o ACTIVE
UNKNOWN == <<"u", "n", "k", "n", "o", "w", "n">>

\* what 'systemctl is-active' prints for a unit that failed to start
FAILED == <<"f", "a", "i", "l", "e", "d">>

\* and for a unit that is starting
ACTIVATING == <<"a", "c", "t", "i", "v", "a", "t", "i", "n", "g">>

\* the outputs of 'systemctl is-active <unit>' the model considers
ServiceStates == {ACTIVE, INACTIVE, FAILED, ACTIVATING, UNKNOWN, <<>>}

\* the marker files detect_os looks for
DebianMarker == "/etc/debian_version"
RedhatMarker == "/etc/redhat-release"
FedoraMarker == "/etc/fedora-release"
CentosMarker == "/etc/centos-release"
ArchMarker == "/etc/arch-release"
SuseBrandMarker == "/etc/SUSE-brand"
SuseReleaseMarker == "/etc/SuSE-release"
Markers ==
  {DebianMarker, RedhatMarker, FedoraMarker, CentosMarker, ArchMarker,
   SuseBrandMarker, SuseReleaseMarker}

\* a stock Debian host: root, a tty, every tool
\* installed, nobody:nogroup, smbd.service, ufw
BaseHost ==
  [euid |-> 0, ip |-> "ok", hostname |-> "ok",
   has_select |-> TRUE,
   tools |-> Tools,
   users |-> {"nobody"}, groups |-> {"nogroup"},
   sudo_user |-> NoneName, user |-> "root", idgn |-> "ok",
   units |-> {"smbd"},
   markers |-> {DebianMarker},
   firewalld_state |-> INACTIVE, fw_fail |-> "none", zone |-> "public",
   ufw_allow |-> "ok", iptables_fail_at |-> 0,
   getenforce |-> "Disabled", failing |-> {}]

\* how 'ip' and 'hostname' behave on the modelled hosts
DetectionTools ==
  {<<"ok", "ok">>, <<"fail", "ok">>, <<"fail", "fail">>, <<"fail", "missing">>,
   <<"missing", "ok">>}

\* hosts of the prompt specification: the stock host, changed in the
\* privileges or in the detection tools and tty
PromptHosts ==
  {[BaseHost EXCEPT !.euid = 1000]}
    \cup {[BaseHost EXCEPT !.ip = t[1], !.hostname = t[2], !.has_select = c] :
             t \in DetectionTools, c \in BOOLEAN}

\* ------------------------------------------------------- external commands
\* subprocess.run([tool, ...], check=True): the exception it raises, or "ok"
RunChecked(h, tool, succeeds) ==
  IF tool \notin h.tools THEN "FileNotFoundError"
  ELSE IF succeeds THEN "ok"
  ELSE "CalledProcessError"

\* needle in text, for texts as tuples of characters
Contains(text, needle) ==
  \E i \in 0..(Len(text) - Len(needle)) :
     \A j \in 1..Len(needle) : text[i + j] = needle[j]

EndsWith(text, needle) ==
  /\ Len(needle) <= Len(text)
  /\ \A j \in 1..Len(needle) : text[Len(text) - Len(needle) + j] = needle[j]

\* the test for exactly the state 'active'
reports_active_exact(stdout) == stdout = ACTIVE

\* lines 721 and 999: "active" in result.stdout
reports_active(stdout) == Contains(stdout, ACTIVE)

\* lines 718-728 and 996-1007 for one output of 'systemctl is-active': whether
\* start_samba_services reports the service as running, and whether
\* troubleshoot_connectivity records the issue and restarts the service
service_status(stdout) ==
  [stdout |-> stdout,
   running |-> reports_active(stdout),
   issue |-> ~reports_active(stdout),
   restart |-> ~reports_active(stdout)]

\* ---------------------------------------------------- get_nobody_user_group
\* lines 543-548
combinations ==
  << <<"nobody", "nobody">>, <<"nobody", "nogroup">>,
     <<"nobody", "wheel">>, <<"nfsnobody", "nfsnobody">> >>

\* the primary group 'id -gn' prints for a user of the modelled hosts
PrimaryGroup(u) == IF u = "alice" THEN "staff" ELSE u

\* Python truth of an environment value: None and '' are false
Truthy(v) == v # NoneName /\ v # ""

\* lines 562-577: the current user and its primary group; every exception
\* ends in root:root
nobody_fallback(h) ==
  LET current_user ==
        IF Truthy(h.sudo_user) THEN h.sudo_user
        ELSE IF Truthy(h.user) THEN h.user
        ELSE "root"
  IN IF RunChecked(h, "id", h.idgn = "ok") = "ok"
     THEN Returned(<<current_user, PrimaryGroup(current_user)>>)
     ELSE Returned(<<"root", "root">>)

\* lines 550-560 from candidate i on: 'id user' then 'getent group group';
\* CalledProcessError moves on to the next pair, any other exception leaves
\* the method
RECURSIVE nobody_loop(_, _)
nobody_loop(h, i) ==
  IF i > Len(combinations) THEN nobody_fallback(h)
  ELSE LET user == combinations[i][1]
           group == combinations[i][2]
           r1 == RunChecked(h, "id", user \in h.users)
           r2 == RunChecked(h, "getent", group \in h.groups)
       IN IF r1 = "FileNotFoundError" THEN Raised("FileNotFoundError")
          ELSE IF r1 = "CalledProcessError" THEN nobody_loop(h, i + 1)
          ELSE IF r2 = "FileNotFoundError" THEN Raised("FileNotFoundError")
          ELSE IF r2 = "CalledProcessError" THEN nobody_loop(h, i + 1)
          ELSE Returned(<<user, group>>)

\* the loop that keeps the last pair found instead of returning the first
RECURSIVE nobody_loop_last(_, _, _)
nobody_loop_last(h, i, found) ==
  IF i > Len(combinations)
  THEN IF found = <<>> THEN nobody_fallback(h) ELSE Returned(found)
  ELSE LET user == combinations[i][1]
           group == combinations[i][2]
           r1 == RunChecked(h, "id", user \in h.users)
           r2 == RunChecked(h, "getent", group \in h.groups)
       IN IF r1 = "FileNotFoundError" \/ (r1 = "ok" /\ r2 = "FileNotFoundError")
          THEN Raised("FileNotFoundError")
          ELSE IF r1 = "ok" /\ r2 = "ok"
          THEN nobody_loop_last(h, i + 1, <<user, group>>)
          ELSE nobody_loop_last(h, i + 1, found)

get_nobody_user_group_last_match(h) == nobody_loop_last(h, 1, <<>>)

get_nobody_user_group(h) == nobody_loop(h, 1)

\* -------------------------------------------------- get_samba_service_names
\* lines 616-622
service_combinations ==
  << [smb |-> "smb", nmb |-> "nmb"], [smb |-> "smbd", nmb |-> "nmbd"],
     [smb |-> "samba", nmb |-> "nmb"], [smb |-> "samba", nmb |-> "winbind"] >>

\* unit names as text
UnitText(u) ==
  CASE u = "smb" -> <<"s", "m", "b">>
    [] u = "smbd" -> <<"s", "m", "b", "d">>
    [] u = "samba" -> <<"s", "a", "m", "b", "a">>
    [] u = "ksmbd" -> <<"k", "s", "m", "b", "d">>

\* unit files a host of the model can have (ksmbd: the in-kernel SMB server)
UnitNames == {"smb", "smbd", "samba", "ksmbd"}

\* 'systemctl list-unit-files <name>.service' lists the unit of that name
ListUnit(h, name) == {u \in h.units : u = name}

\* 'systemctl list-unit-files *smb* *samba*' lists the units matching a glob
ListGlob(h) ==
  {u \in h.units :
     Contains(UnitText(u), UnitText("smb")) \/ Contains(UnitText(u), UnitText("samba"))}

\* f"{name}.service" in result.stdout, where stdout has a line
\* '<unit>.service <state>' for every listed unit: a substring test
ServiceInStdout(name, listed) ==
  \E u \in listed : EndsWith(UnitText(u), UnitText(name))

\* lines 639-660: the glob query, then the default smbd, nmbd
service_alternative(h) ==
  LET listed == ListGlob(h)
  IN IF ServiceInStdout("smb", listed) THEN Returned(<<"smb", "nmb">>)
     ELSE IF ServiceInStdout("smbd", listed) THEN Returned(<<"smbd", "nmbd">>)
     ELSE IF ServiceInStdout("samba", listed) THEN Returned(<<"samba", NoneName>>)
     ELSE Returned(<<"smbd", "nmbd">>)

\* lines 624-637 from candidate i on; systemctl runs without check=True, so
\* only its output counts
RECURSIVE service_loop(_, _)
service_loop(h, i) ==
  IF i > Len(service_combinations) THEN service_alternative(h)
  ELSE LET smb_service == service_combinations[i].smb
           nmb_service == service_combinations[i].nmb
       IN IF ServiceInStdout(smb_service, ListUnit(h, smb_service))
          THEN Returned(<<smb_service, nmb_service>>)
          ELSE service_loop(h, i + 1)

\* systemctl that is not installed raises FileNotFoundError at the first
\* query, which 'except subprocess.CalledProcessError' does not catch
get_samba_service_names(h) ==
  IF "systemctl" \notin h.tools THEN Raised("FileNotFoundError")
  ELSE service_loop(h, 1)

\* ---------------------------------------------------------------- detect_os
Profile(type, pm) == [type |-> type, package_manager |-> pm]

\* the detection that takes every failure of 'which dnf' for an absent dnf
detect_os_yum_on_any_failure(h) ==
  IF DebianMarker \in h.markers THEN Profile("debian", "apt")
  ELSE IF RedhatMarker \in h.markers \/ FedoraMarker \in h.markers
  THEN Profile("redhat", "dnf")
  ELSE IF CentosMarker \in h.markers
  THEN IF RunChecked(h, "which", "dnf" \in h.tools) = "ok"
       THEN Profile("redhat", "dnf")
       ELSE Profile("redhat", "yum")
  ELSE IF ArchMarker \in h.markers THEN Profile("arch", "pacman")
  ELSE IF SuseBrandMarker \in h.markers \/ SuseReleaseMarker \in h.markers
  THEN Profile("suse", "zypper")
  ELSE Profile("unknown", "apt")

\* lines 335-419: the first marker file present decides; 'which dnf' that
\* cannot be launched is caught by 'except Exception' (line 412)
detect_os(h) ==
  IF DebianMarker \in h.markers THEN Profile("debian", "apt")
  ELSE IF RedhatMarker \in h.markers \/ FedoraMarker \in h.markers
  THEN Profile("redhat", "dnf")
  ELSE IF CentosMarker \in h.markers
  THEN LET r == RunChecked(h, "which", "dnf" \in h.tools)
       IN IF r = "ok" THEN Profile("redhat", "dnf")
          ELSE IF r = "CalledProcessError" THEN Profile("redhat", "yum")
          ELSE Profile("unknown", "apt")
  ELSE IF ArchMarker \in h.markers THEN Profile("arch", "pacman")
  ELSE IF SuseBrandMarker \in h.markers \/ SuseReleaseMarker \in h.markers
  THEN Profile("suse", "zypper")
  ELSE Profile("unknown", "apt")

\* ------------------------------------------------------- configure_firewall
\* the outcome of one stage of configure_firewall: "return" (with value),
\* "raise", or "next" (fall through to the next manager), and the commands
\* that changed the firewall
Stage(kind, value, cmds) == [kind |-> kind, value |-> value, cmds |-> cmds]

\* interface['name'].startswith(('virbr', 'libvirt')), on the modelled names
IsVirtualName(name) == name \in {"virbr0"}

LibvirtCmds ==
  << "firewall-cmd --zone=libvirt --add-service=samba --permanent",
     "firewall-cmd --zone=libvirt --add-service=samba",
     "firewall-cmd --zone=libvirt --add-port=445/tcp --permanent",
     "firewall-cmd --zone=libvirt --add-port=139/tcp --permanent",
     "firewall-cmd --zone=libvirt --add-port=445/tcp",
     "firewall-cmd --zone=libvirt --add-port=139/tcp" >>

\* lines 782-803: per virtual interface, the zone query and, in the libvirt
\* zone, six commands; a failing command only ends that interface's turn
RECURSIVE libvirt_zone_cmds(_, _, _)
libvirt_zone_cmds(h, interfaces, i) ==
  IF i > Len(interfaces) THEN <<>>
  ELSE LET rest == libvirt_zone_cmds(h, interfaces, i + 1)
       IN IF IsVirtualName(interfaces[i].name) /\ h.zone = "libvirt"
          THEN LibvirtCmds \o rest
          ELSE rest

\* lines 759-812
firewalld_stage(h, d) ==
  IF detect_os(h).type = "debian" THEN Stage("next", FALSE, <<>>)
  ELSE IF "systemctl" \notin h.tools THEN Stage("raise", "FileNotFoundError", <<>>)
  ELSE IF ~Contains(h.firewalld_state, ACTIVE) THEN Stage("next", FALSE, <<>>)
  ELSE IF "firewall-cmd" \notin h.tools THEN Stage("next", FALSE, <<>>)
  ELSE IF h.fw_fail = "version" THEN Stage("next", FALSE, <<>>)
  ELSE IF h.fw_fail = "add_service" THEN Stage("next", FALSE, <<>>)
  ELSE LET added == << "firewall-cmd --add-service=samba --permanent",
                       "firewall-cmd --add-service=samba" >>
       IN IF d.kind = "raise" THEN Stage("raise", d.value, added)
          ELSE LET zoned == added \o libvirt_zone_cmds(h, d.value, 1)
               IN IF h.fw_fail = "reload" THEN Stage("next", FALSE, zoned)
                  ELSE Stage("return", TRUE, Append(zoned, "firewall-cmd --reload"))

\* lines 814-825
ufw_stage(h) ==
  LET r == RunChecked(h, "which", "ufw" \in h.tools)
  IN IF r = "FileNotFoundError" THEN Stage("raise", r, <<>>)
     ELSE IF r = "CalledProcessError" THEN Stage("next", FALSE, <<>>)
     ELSE IF h.ufw_allow = "ok" THEN Stage("return", TRUE, <<"ufw allow samba">>)
     ELSE Stage("next", FALSE, <<>>)

IptablesCmds ==
  << "iptables -A INPUT -p tcp --dport 445 -j ACCEPT",
     "iptables -A INPUT -p tcp --dport 139 -j ACCEPT",
     "iptables -A INPUT -p udp --dport 137 -j ACCEPT",
     "iptables -A INPUT -p udp --dport 138 -j ACCEPT" >>

\* lines 827-843; iptables_fail_at = k > 0: the k-th rule command fails
iptables_stage(h) ==
  LET r == RunChecked(h, "which", "iptables" \in h.tools)
  IN IF r = "FileNotFoundError" THEN Stage("raise", r, <<>>)
     ELSE IF r = "CalledProcessError" THEN Stage("next", FALSE, <<>>)
     ELSE IF h.iptables_fail_at = 0 THEN Stage("return", TRUE, IptablesCmds)
     ELSE Stage("next", FALSE, SubSeq(IptablesCmds, 1, h.iptables_fail_at - 1))

\* lines 751-847 on host h when the interface detection inside the firewalld
\* stage has outcome d: the result and the commands that took effect
configure_firewall(h, d) ==
  LET s1 == firewalld_stage(h, d)
      s2 == ufw_stage(h)
      s3 == iptables_stage(h)
  IN IF s1.kind # "next" THEN s1
     ELSE IF s2.kind # "next" THEN Stage(s2.kind, s2.value, s1.cmds \o s2.cmds)
     ELSE IF s3.kind # "next" THEN Stage(s3.kind, s3.value, s1.cmds \o s2.cmds \o s3.cmds)
     ELSE Stage("return", FALSE, s1.cmds \o s2.cmds \o s3.cmds)

\* ------------------------------------------------------------------- state
VARIABLES
  pc,                  \* position of the session in setup()
  exit_status,         \* -1 while running, else the status of sys.exit
  host,                \* facts of the host
  share_exists,        \* os.path.exists(self.share_path)
  bind_interfaces,     \* self.bind_interfaces
  bind_interface_name, \* self.bind_interface_name
  smb_min_protocol,    \* self.smb_min_protocol
  smb_max_protocol,    \* self.smb_max_protocol
  options,             \* local options of select_network_binding
  remaining,           \* loop variable of the interface countdown
  elapsed,             \* whole seconds of time.time() - start_time
  user_input,          \* local user_input of the running prompt
  ev,                  \* what the latest polling tick observed
  loop_exit,           \* how the countdown loop was left
  report,              \* which branch of 'Process user input' ran
  cascade,             \* the cascade applied last, "none" before any
  result,              \* what that cascade returned or raised
  cmds,                \* the firewall commands that cascade made effective
  args,                \* the command line: which of --debug, --monitor, --report it has
  steps,               \* the methods of the session called so far
  duration,            \* the argument of monitor_samba_logs
  packages,            \* the packages installed on the host
  smb_conf,            \* content of /etc/samba/smb.conf
  backup_conf,         \* content of /etc/samba/smb.conf.backup
  share_dir,           \* mode and owner of the share directory
  firewall,            \* the firewall commands that took effect, in order
  selinux,             \* the SELinux commands that took effect
  services,            \* the units enabled and started or restarted
  reads,               \* the methods that read a bind field holding None
  child                \* the 'tail -f' child of monitor_samba_logs

effects ==
  <<packages, smb_conf, backup_conf, share_dir, firewall, selinux, services,
    reads, child>>

world == <<args, steps, duration, effects>>

vars ==
  <<pc, exit_status, host, share_exists, bind_interfaces, bind_interface_name,
    smb_min_protocol, smb_max_protocol, options, remaining, elapsed,
    user_input, ev, loop_exit, report, cascade, result, cmds, world>>

\* lines 1469-1475: the three flags of the parser
CommandLine(debug_, monitor_, report_) ==
  [debug |-> debug_, monitor |-> monitor_, report |-> report_]

PlainSetup == CommandLine(FALSE, FALSE, FALSE)
OnlyDebug == CommandLine(TRUE, FALSE, FALSE)
OnlyMonitor == CommandLine(FALSE, TRUE, FALSE)
OnlyReport == CommandLine(FALSE, FALSE, TRUE)
CommandLines == [debug : BOOLEAN, monitor : BOOLEAN, report : BOOLEAN]

\* lines 1482-1503: the branch of main() the command line leads to
mode ==
  IF args.report THEN "report"
  ELSE IF args.monitor THEN "monitor"
  ELSE IF args.debug THEN "debug"
  ELSE "setup"

casc == <<cascade, result, cmds>>
session == <<bind_interfaces, bind_interface_name, smb_min_protocol, smb_max_protocol>>
locals == <<options, remaining, elapsed, user_input, ev, loop_exit, report>>

NoEvent == [kind |-> "none", raw |-> <<>>]
Quiet == [kind |-> "quiet", raw |-> <<>>]
Sleep == [kind |-> "sleep", raw |-> <<>>]
Interrupt == [kind |-> "interrupt", raw |-> <<>>]
LineEvent(l) == [kind |-> "line", raw |-> l]

\* SMBServerSetup.__init__ and the locals before any prompt runs
InitSession ==
  /\ exit_status = -1
  /\ bind_interfaces = NoneIp
  /\ bind_interface_name = NoneName
  /\ smb_min_protocol = "NT1"
  /\ smb_max_protocol = "SMB3"
  /\ options = <<>>
  /\ remaining = 0
  /\ elapsed = 0
  /\ user_input = NoneLine
  /\ ev = NoEvent
  /\ loop_exit = "none"
  /\ report = "none"

\* files: one that does not exist, the configuration a distribution ships,
\* and a file opened for writing whose write failed
NoFile == [kind |-> "absent"]
StockConf == [kind |-> "stock"]
Truncated == [kind |-> "truncated"]

\* the share directory: absent, or with its mode and its owner
NoDir == [mode |-> "none", owner |-> <<>>]
Dir(mode_, owner) == [mode |-> mode_, owner |-> owner]

\* a method of the session is entered
Call(method) == steps' = steps \cup {method}

\* the host before the session touched anything: a plain setup run on a host
\* with Samba installed and its stock configuration
InitWorld ==
  /\ args = PlainSetup
  /\ steps = {}
  /\ duration = 0
  /\ packages = {"samba"}
  /\ smb_conf = StockConf
  /\ backup_conf = NoFile
  /\ share_dir = IF share_exists THEN Dir("755", <<"root", "root">>) ELSE NoDir
  /\ firewall = <<>>
  /\ selinux = {}
  /\ services = {}
  /\ reads = {}
  /\ child = "none"

\* no cascade has been applied
InitCasc ==
  /\ cascade = "none"
  /\ result = Returned("none")
  /\ cmds = <<>>

Init ==
  /\ pc = "check_root_privileges"
  /\ host \in PromptHosts
  /\ share_exists \in BOOLEAN
  /\ InitSession
  /\ InitCasc
  /\ InitWorld

\* sys.exit(status)
Exit(status) ==
  /\ pc' = "exit"
  /\ exit_status' = status

\* an exception nobody catches inside setup(): main() prints it and exits 1
Propagate == Exit(1)

\* the privilege test that only warns
check_root_privileges_warns ==
  /\ pc = "check_root_privileges"
  /\ pc' = "check_share_directory"
  /\ Call("check_root_privileges")
  /\ UNCHANGED <<exit_status, host, share_exists, session, locals, casc, args,
                 duration, effects>>

\* lines 32-38: a session that is not root exits with status 1
check_root_privileges ==
  /\ pc = "check_root_privileges"
  /\ IF host.euid # 0 THEN Exit(1)
     ELSE pc' = "check_share_directory" /\ UNCHANGED exit_status
  /\ Call("check_root_privileges")
  /\ UNCHANGED <<host, share_exists, session, locals, casc, args, duration, effects>>

\* lines 40-51: os.makedirs creates the missing directory or raises, and a
\* failure ends the session
check_share_directory ==
  /\ pc = "check_share_directory"
  /\ IF share_exists
     THEN /\ pc' = "select_network_binding"
          /\ UNCHANGED <<exit_status, share_exists, share_dir>>
     ELSE \E created \in BOOLEAN :
            IF created
            THEN /\ share_exists' = TRUE
                 /\ share_dir' = Dir("755", <<"root", "root">>)
                 /\ pc' = "select_network_binding"
                 /\ UNCHANGED exit_status
            ELSE Exit(1) /\ UNCHANGED <<share_exists, share_dir>>
  /\ Call("check_share_directory")
  /\ UNCHANGED <<host, session, locals, casc, args, duration, packages, smb_conf,
                 backup_conf, firewall, selinux, services, reads, child>>

\* --------------------------------------------------- select_network_binding
\* options.append({'key': str(i), 'description': ..., 'value': interface['ip']})
\* for i, interface in enumerate(interfaces, 1)
BuildOptions(interfaces) ==
  [i \in 1..Len(interfaces) |->
     [key |-> i,
      description |-> <<interfaces[i].name, interfaces[i].ip>>,
      value |-> interfaces[i].ip]]

\* lines 127-154: first detection, the menu, or sys.exit(1) without interfaces
select_network_binding ==
  /\ pc = "select_network_binding"
  /\ \E d \in Detections(host) :
       IF d.kind = "raise"
       THEN Propagate /\ UNCHANGED <<options, remaining, user_input>>
       ELSE IF d.value = <<>>
       THEN Exit(1) /\ UNCHANGED <<options, remaining, user_input>>
       ELSE /\ options' = BuildOptions(d.value)
            /\ remaining' = Timeout
            /\ user_input' = NoneLine
            /\ pc' = "nb_poll"
            /\ UNCHANGED exit_status
  /\ Call("select_network_binding")
  /\ UNCHANGED <<host, share_exists, session, elapsed, ev, loop_exit, report,
                 casc, args, duration, effects>>

\* the end of one iteration of 'for remaining in range(60, 0, -1)' that did
\* not break: the next iteration, or the else branch of the loop (line 183)
NBNextIteration(ui) ==
  IF remaining > 1
  THEN /\ remaining' = remaining - 1
       /\ user_input' = ui
       /\ pc' = "nb_poll"
       /\ UNCHANGED loop_exit
  ELSE /\ remaining' = 0
       /\ user_input' = <<"1">>
       /\ loop_exit' = "timeout"
       /\ pc' = "nb_process"

\* a break out of the countdown (lines 169 and 179); the loop variable is not
\* read after the loop and is forgotten
NBBreak(ui, how) ==
  /\ remaining' = 0
  /\ user_input' = ui
  /\ loop_exit' = how
  /\ pc' = "nb_process"

NBPollFrame ==
  UNCHANGED <<exit_status, host, share_exists, session, options, elapsed, report, casc, world>>

\* lines 165-166: select.select waits one second and nothing is ready
select_network_binding_quiet ==
  /\ pc = "nb_poll"
  /\ host.has_select
  /\ ev' = Quiet
  /\ NBNextIteration(user_input)
  /\ NBPollFrame

\* the read that asks again after an empty line without using up an
\* iteration of the countdown
select_network_binding_readline_retry ==
  /\ pc = "nb_poll"
  /\ host.has_select
  /\ \E raw \in Lines :
       /\ ev' = LineEvent(raw)
       /\ IF Strip(raw) # <<>>
          THEN NBBreak(Strip(raw), "input")
          ELSE /\ user_input' = Strip(raw)
               /\ UNCHANGED <<remaining, loop_exit, pc>>
  /\ NBPollFrame

\* the read without its break: the line is stored and the countdown goes on
select_network_binding_readline_no_break ==
  /\ pc = "nb_poll"
  /\ host.has_select
  /\ \E raw \in Lines :
       /\ ev' = LineEvent(raw)
       /\ NBNextIteration(Strip(raw))
  /\ NBPollFrame

\* the read that breaks on every line, empty or not
select_network_binding_readline_break_any ==
  /\ pc = "nb_poll"
  /\ host.has_select
  /\ \E raw \in Lines :
       /\ ev' = LineEvent(raw)
       /\ NBBreak(Strip(raw), "input")
  /\ NBPollFrame

\* lines 166-169: a line is ready; it ends the countdown when it is not empty
select_network_binding_readline ==
  /\ pc = "nb_poll"
  /\ host.has_select
  /\ \E raw \in Lines :
       /\ ev' = LineEvent(raw)
       /\ IF Strip(raw) # <<>>
          THEN NBBreak(Strip(raw), "input")
          ELSE NBNextIteration(Strip(raw))
  /\ NBPollFrame

\* the interrupt without its except clause: it leaves setup() and main()
\* exits with status 1
select_network_binding_interrupt_uncaught ==
  /\ pc = "nb_poll"
  /\ ev' = Interrupt
  /\ Exit(1)
  /\ UNCHANGED <<host, share_exists, session, options, remaining, elapsed,
                 user_input, loop_exit, report, casc, world>>

\* lines 176-179: KeyboardInterrupt or EOFError inside the try block
select_network_binding_interrupt ==
  /\ pc = "nb_poll"
  /\ ev' = Interrupt
  /\ NBBreak(<<"1">>, "interrupted")
  /\ NBPollFrame

\* lines 170-175: without select.select the iteration only sleeps
select_network_binding_sleep ==
  /\ pc = "nb_poll"
  /\ ~host.has_select
  /\ ev' = Sleep
  /\ NBNextIteration(user_input)
  /\ NBPollFrame

\* the key taken for the index, without the conversion to 0-based
nb_choice_index_nooffset(n) == n

\* line 187: choice_index = int(user_input) - 1
nb_choice_index(n) == n - 1

\* the range test without its lower bound: a negative index counts from the
\* end of the list as in Python, and IndexError falls into the except branch
nb_select_no_lower_bound(opts, ui) ==
  LET p == ParseInt(ui)
      choice_index == p.val - 1
  IN IF ~p.ok THEN [report |-> "invalid_input", option |-> opts[1]]
     ELSE IF choice_index < Len(opts)
     THEN IF choice_index >= 0
          THEN [report |-> "selected", option |-> opts[choice_index + 1]]
          ELSE IF Len(opts) + choice_index >= 0
          THEN [report |-> "selected", option |-> opts[Len(opts) + choice_index + 1]]
          ELSE [report |-> "invalid_input", option |-> opts[1]]
     ELSE [report |-> "invalid_choice", option |-> opts[1]]

\* lines 186-228 up to the choice of the option: the branch taken and the
\* option selected
nb_select(opts, ui) ==
  LET p == ParseInt(ui)
      choice_index == nb_choice_index(p.val)
  IN IF ~p.ok THEN [report |-> "invalid_input", option |-> opts[1]]
     ELSE IF 0 <= choice_index /\ choice_index < Len(opts)
     THEN [report |-> "selected", option |-> opts[choice_index + 1]]
     ELSE [report |-> "invalid_choice", option |-> opts[1]]

\* lines 193-199: the name of the first interface of the second detection
\* that carries the selected address, else the name held before, else eth0
nb_interface_name(interfaces_data, value, before) ==
  LET hits == {i \in 1..Len(interfaces_data) : interfaces_data[i].ip = value}
      found == IF hits = {} THEN before
               ELSE interfaces_data[CHOOSE i \in hits : \A j \in hits : i <= j].name
  IN IF found = NoneName \/ found = "" THEN "eth0" ELSE found

\* lines 186-230: parse the input, select, detect again for the name
select_network_binding_process ==
  /\ pc = "nb_process"
  /\ LET sel == nb_select(options, user_input)
     IN /\ report' = sel.report
        /\ bind_interfaces' = sel.option.value
        /\ \E d \in Detections(host) :
             IF d.kind = "raise"
             THEN Propagate /\ UNCHANGED bind_interface_name
             ELSE /\ bind_interface_name' =
                       nb_interface_name(d.value, sel.option.value, bind_interface_name)
                  /\ pc' = "nb_done"
                  /\ UNCHANGED exit_status
  /\ UNCHANGED <<host, share_exists, smb_min_protocol, smb_max_protocol,
                 options, remaining, elapsed, user_input, ev, loop_exit, casc, world>>

\* the locals of a prompt method end with the method
ClearLocals ==
  /\ options' = <<>>
  /\ remaining' = 0
  /\ elapsed' = 0
  /\ user_input' = NoneLine
  /\ ev' = NoEvent
  /\ loop_exit' = "none"
  /\ report' = "none"

\* line 1411 returns, setup() goes on to line 1412
select_network_binding_return ==
  /\ pc = "nb_done"
  /\ pc' = "select_smb_version"
  /\ ClearLocals
  /\ UNCHANGED <<exit_status, host, share_exists, session, casc, world>>

\* ------------------------------------------------------- select_smb_version
\* lines 239-264, as (min_protocol, max_protocol); Python index k is
\* position k + 1
smb_options ==
  << [name |-> "SMBv1 (NT1)", min_protocol |-> "NT1", max_protocol |-> "SMB3"],
     [name |-> "SMBv2", min_protocol |-> "SMB2", max_protocol |-> "SMB3"],
     [name |-> "SMBv3 Only", min_protocol |-> "SMB3", max_protocol |-> "SMB3"] >>

\* lines 235-280: the menu, user_input = None, start_time = time.time()
select_smb_version ==
  /\ pc = "select_smb_version"
  /\ user_input' = NoneLine
  /\ elapsed' = 0
  /\ pc' = "smb_poll"
  /\ UNCHANGED <<exit_status, host, share_exists, session, options, remaining,
                 ev, loop_exit, report, casc, args, duration, effects>>
  /\ Call("select_smb_version")

\* the key read as 1-based, as in select_network_binding
smb_choice_index_onebased(n) == n - 1

\* line 314: choice_index = int(user_input) if user_input else 0
smb_choice_index(n) == n

\* the selection whose fallback assigns the default range the wrong way round
smb_select_swapped_default(ui) ==
  LET p == IF ui # <<>> THEN ParseInt(ui) ELSE [ok |-> TRUE, val |-> 0]
      choice_index == smb_choice_index(p.val)
  IN IF ~p.ok
     THEN [report |-> "invalid_input", min |-> "SMB3", max |-> "NT1"]
     ELSE IF 0 <= choice_index /\ choice_index < Len(smb_options)
     THEN [report |-> "selected",
           min |-> smb_options[choice_index + 1].min_protocol,
           max |-> smb_options[choice_index + 1].max_protocol]
     ELSE [report |-> "invalid_choice", min |-> "SMB3", max |-> "NT1"]

\* lines 313-330: the branch taken and the protocols assigned
smb_select(ui) ==
  LET p == IF ui # <<>> THEN ParseInt(ui) ELSE [ok |-> TRUE, val |-> 0]
      choice_index == smb_choice_index(p.val)
  IN IF ~p.ok
     THEN [report |-> "invalid_input", min |-> "NT1", max |-> "SMB3"]
     ELSE IF 0 <= choice_index /\ choice_index < Len(smb_options)
     THEN [report |-> "selected",
           min |-> smb_options[choice_index + 1].min_protocol,
           max |-> smb_options[choice_index + 1].max_protocol]
     ELSE [report |-> "invalid_choice", min |-> "NT1", max |-> "SMB3"]

\* the loop is left with user_input = ui; lines 313-332 run to the end
SMBResolveSelection(ui, how) ==
  LET sel == smb_select(ui)
  IN /\ user_input' = ui
     /\ loop_exit' = how
     /\ report' = sel.report
     /\ smb_min_protocol' = sel.min
     /\ smb_max_protocol' = sel.max
     /\ pc' = "smb_done"

\* a break out of the loop (lines 296 and 306)
SMBResolve(ui, how) ==
  /\ SMBResolveSelection(ui, how)
  /\ UNCHANGED elapsed

\* an iteration that did not break took one second: the loop condition
\* time.time() - start_time < timeout is tested again, its else branch
\* (line 310) runs when it fails
SMBNextIteration ==
  IF elapsed + 1 < Timeout
  THEN /\ elapsed' = elapsed + 1
       /\ pc' = "smb_poll"
       /\ UNCHANGED <<user_input, loop_exit, report, smb_min_protocol, smb_max_protocol>>
  ELSE /\ elapsed' = elapsed + 1
       /\ SMBResolveSelection(<<"0">>, "timeout")

SMBPollFrame ==
  UNCHANGED <<exit_status, host, share_exists, bind_interfaces,
              bind_interface_name, options, remaining, casc, world>>

\* lines 293-294: select.select waits one second and nothing is ready
select_smb_version_quiet ==
  /\ pc = "smb_poll"
  /\ host.has_select
  /\ ev' = Quiet
  /\ SMBNextIteration
  /\ SMBPollFrame

\* lines 294-296: a line is ready; any line, empty or not, ends the loop
select_smb_version_readline ==
  /\ pc = "smb_poll"
  /\ host.has_select
  /\ \E raw \in Lines :
       /\ ev' = LineEvent(raw)
       /\ SMBResolve(Strip(raw), "input")
  /\ SMBPollFrame

\* lines 303-306: KeyboardInterrupt or EOFError inside the try block
select_smb_version_interrupt ==
  /\ pc = "smb_poll"
  /\ ev' = Interrupt
  /\ SMBResolve(<<"0">>, "interrupted")
  /\ SMBPollFrame

\* lines 297-302: without select.select the iteration only sleeps
select_smb_version_sleep ==
  /\ pc = "smb_poll"
  /\ ~host.has_select
  /\ ev' = Sleep
  /\ SMBNextIteration
  /\ SMBPollFrame

\* line 1412 returns, setup() goes on to install_samba (line 1413)
select_smb_version_return ==
  /\ pc = "smb_done"
  /\ pc' = "install_samba"
  /\ ClearLocals
  /\ UNCHANGED <<exit_status, host, share_exists, session, casc, world>>

Next ==
  \/ check_root_privileges
  \/ check_share_directory
  \/ select_network_binding
  \/ select_network_binding_quiet
  \/ select_network_binding_readline
  \/ select_network_binding_interrupt
  \/ select_network_binding_sleep
  \/ select_network_binding_process
  \/ select_network_binding_return
  \/ select_smb_version
  \/ select_smb_version_quiet
  \/ select_smb_version_readline
  \/ select_smb_version_interrupt
  \/ select_smb_version_sleep
  \/ select_smb_version_return

Spec == Init /\ [][Next]_vars

TypeOK ==
  /\ pc \in {"check_root_privileges", "check_share_directory",
             "select_network_binding", "nb_poll", "nb_process", "nb_done",
             "select_smb_version", "smb_poll", "smb_done", "install_samba", "exit",
             "cascade"}
  /\ exit_status \in {-1, 0, 1}
  /\ remaining \in 0..Timeout
  /\ elapsed \in 0..Timeout
  /\ cascade \in {"none", "get_nobody_user_group", "get_samba_service_names",
                  "detect_os", "service_status", "configure_firewall",
                  "enable_verbose_logging"}

\* ---------------------------------------------------------------- cascades
\* hosts of the cascade specification: the stock host, changed in the facts
\* one cascade looks at
IdentityHosts ==
  {[BaseHost EXCEPT !.tools = Tools \ m, !.users = us, !.groups = gs,
                    !.sudo_user = su, !.user = u, !.idgn = g] :
     m \in {{}, {"id"}, {"getent"}},
     us \in SUBSET {"nobody", "nfsnobody"},
     gs \in SUBSET {"nobody", "nogroup", "wheel", "nfsnobody"},
     su \in {NoneName, "", "alice"},
     u \in {NoneName, "root"},
     g \in {"ok", "fail"}}

ServiceHosts ==
  {[BaseHost EXCEPT !.tools = Tools \ m, !.units = us] :
     m \in {{}, {"systemctl"}}, us \in SUBSET UnitNames}

OsHosts ==
  {[BaseHost EXCEPT !.tools = Tools \ m, !.markers = ms] :
     m \in {{}, {"dnf"}, {"which"}}, ms \in SUBSET Markers}

\* firewalld as the host reports it: the state 'systemctl is-active' prints
\* and the configuration step that fails
FirewalldFacts ==
  {<<ACTIVE, "none">>, <<ACTIVE, "version">>, <<ACTIVE, "add_service">>,
   <<ACTIVE, "reload">>, <<INACTIVE, "none">>, <<UNKNOWN, "none">>}

\* the 'ip' tool and the firewalld zone of a virtual interface
ZoneFacts == {<<"ok", "libvirt">>, <<"ok", "public">>, <<"missing", "public">>}

FirewallHosts ==
  {[BaseHost EXCEPT !.tools = Tools \ m, !.markers = ms, !.ip = zf[1],
                    !.firewalld_state = ff[1], !.fw_fail = ff[2], !.zone = zf[2],
                    !.ufw_allow = ua, !.iptables_fail_at = k] :
     m \in SUBSET {"systemctl", "which", "firewall-cmd", "ufw", "iptables"},
     ms \in {{DebianMarker}, {RedhatMarker}, {}},
     zf \in ZoneFacts,
     ff \in FirewalldFacts,
     ua \in {"ok", "fail"},
     k \in {0, 2}}

CascadeHosts == IdentityHosts \cup ServiceHosts \cup OsHosts \cup FirewallHosts

InitCascade ==
  /\ pc = "cascade"
  /\ host \in CascadeHosts
  /\ share_exists = TRUE
  /\ InitSession
  /\ InitCasc
  /\ InitWorld

CascadeFrame ==
  UNCHANGED <<pc, exit_status, host, share_exists, session, locals, world>>

\* a caller applies get_nobody_user_group to the host
run_get_nobody_user_group ==
  /\ pc = "cascade"
  /\ cascade' = "get_nobody_user_group"
  /\ result' = get_nobody_user_group(host)
  /\ cmds' = <<>>
  /\ CascadeFrame

\* a caller applies get_samba_service_names to the host
run_get_samba_service_names ==
  /\ pc = "cascade"
  /\ cascade' = "get_samba_service_names"
  /\ result' = get_samba_service_names(host)
  /\ cmds' = <<>>
  /\ CascadeFrame

\* a caller applies detect_os to the host
run_detect_os ==
  /\ pc = "cascade"
  /\ cascade' = "detect_os"
  /\ result' = Returned(detect_os(host))
  /\ cmds' = <<>>
  /\ CascadeFrame

\* ------------------------------------------- enable_verbose_logging, the text
\* smb.conf as the sequence of its lines, each without its indentation
GlobalHeader == "[global]"
LogLevel3 == "log level = 3"
DebugTimestamp == "debug timestamp = yes"
DebugUid == "debug uid = yes"
DebugPid == "debug pid = yes"

\* r'log level = \d+' matches the line
NumericLogLevel(line) == line \in {"log level = 1", LogLevel3}

\* "log level =" in the line
HasLogLevel(line) == NumericLogLevel(line) \/ line = "log level = auth:3"

\* "debug timestamp" in the line
HasDebugTimestamp(line) == line \in {DebugTimestamp, "debug timestamp = no"}

\* lines 1056-1061 behind the header: debug_config starts and ends with a
\* newline, so its lines follow the header and an empty line follows them
debug_config ==
  <<"# Debug logging configuration", LogLevel3, DebugTimestamp, DebugUid,
    DebugPid, "">>

\* lines 1078-1080: what stands in place of 'log level = 3'
debug_options == <<LogLevel3, DebugTimestamp, DebugUid, DebugPid>>

\* the lines a session can find in smb.conf
ConfigLines ==
  {GlobalHeader, "workgroup = WORKGROUP", "log level = 1", LogLevel3,
   "log level = auth:3", "debug timestamp = no"}

MaxConfigLines == 3

\* the texts of smb.conf
ConfigTexts == SeqsUpTo(ConfigLines, MaxConfigLines)

\* the log-level part of what create_samba_config writes (lines 485-516)
GeneratedText == <<GlobalHeader, "workgroup = WORKGROUP", "log level = 1">>

\* line 1074: re.sub(r'log level = \d+', 'log level = 3', config_content)
re_sub(text) ==
  [i \in 1..Len(text) |-> IF NumericLogLevel(text[i]) THEN LogLevel3 ELSE text[i]]

\* str.replace on whole lines: every line equal to old becomes the lines new
RECURSIVE replace(_, _, _)
replace(text, old, new) ==
  IF text = <<>> THEN <<>>
  ELSE (IF Head(text) = old THEN new ELSE <<Head(text)>>)
         \o replace(Tail(text), old, new)

\* the same without the test of line 1076: the options are added each time
verbose_content_adds_always(config_content) ==
  IF \E i \in 1..Len(config_content) : HasLogLevel(config_content[i])
  THEN replace(re_sub(config_content), LogLevel3, debug_options)
  ELSE replace(config_content, GlobalHeader, <<GlobalHeader>> \o debug_config)

\* lines 1070-1085: the text enable_verbose_logging writes for the text read
verbose_content(config_content) ==
  IF \E i \in 1..Len(config_content) : HasLogLevel(config_content[i])
  THEN LET substituted == re_sub(config_content)
       IN IF \E i \in 1..Len(substituted) : HasDebugTimestamp(substituted[i])
          THEN substituted
          ELSE replace(substituted, LogLevel3, debug_options)
  ELSE replace(config_content, GlobalHeader, <<GlobalHeader>> \o debug_config)

\* enable_verbose_logging rewrites smb.conf at the end of setup() in debug
\* mode (line 1430) and again when the debug session starts (line 1322);
\* nothing writes the file in between
run_enable_verbose_logging ==
  /\ pc = "cascade"
  /\ host = BaseHost
  /\ \E config_content \in ConfigTexts :
       /\ cascade' = "enable_verbose_logging"
       /\ result' = Returned([config |-> config_content,
                              once |-> verbose_content(config_content),
                              twice |-> verbose_content(verbose_content(config_content))])
       /\ cmds' = <<>>
  /\ CascadeFrame

\* a caller asks for the state of the smb unit, as start_samba_services and
\* troubleshoot_connectivity do, on a host with systemctl
run_service_status ==
  /\ pc = "cascade"
  /\ host \in ServiceHosts
  /\ "systemctl" \in host.tools
  /\ \E stdout \in ServiceStates :
       /\ cascade' = "service_status"
       /\ result' = Returned(service_status(stdout))
       /\ cmds' = <<>>
  /\ CascadeFrame

\* a caller applies configure_firewall to the host
run_configure_firewall ==
  /\ pc = "cascade"
  /\ \E d \in Detections(host) :
       LET r == configure_firewall(host, d)
       IN /\ cascade' = "configure_firewall"
          /\ result' = [kind |-> r.kind, value |-> r.value]
          /\ cmds' = r.cmds
  /\ CascadeFrame

NextCascade ==
  \/ run_get_nobody_user_group
  \/ run_get_samba_service_names
  \/ run_detect_os
  \/ run_service_status
  \/ run_enable_verbose_logging
  \/ run_configure_firewall

SpecCascade == InitCascade /\ [][NextCascade]_vars

\* ============================================================ the session
\* main() and every step of setup(), one action per method.  The timed
\* prompts are taken as whole methods here: what their polling loops can
\* leave in user_input is the set the stepped prompts of Spec produce.
\* Which operations fail is a fact of the host (the field failing), like
\* the tools it has.

\* the operations of the session that can fail on a host
FailureKinds ==
  {"update", "install", "copy2", "open", "write", "chmod", "chown", "chmod777",
   "semanage", "restorecon", "testparm", "enable", "restart",
   "install smbclient", "smbclient"}

Fails(h, operation) == operation \in h.failing

\* a Debian host without SELinux and with the firewalld tools installed
DebianHost == [BaseHost EXCEPT !.tools = Tools \ {"getenforce", "semanage"}]

\* a Debian host as installed: no SELinux, no firewalld
PlainDebianHost ==
  [BaseHost EXCEPT !.tools = Tools \ {"getenforce", "semanage", "firewall-cmd"}]

\* a Red Hat host: SELinux enforcing, firewalld running, the smb unit,
\* nobody:nobody
RedHatHost ==
  [BaseHost EXCEPT !.markers = {RedhatMarker}, !.firewalld_state = ACTIVE,
                   !.getenforce = "Enforcing",
                   !.groups = {"nobody"}, !.units = {"smb"}]

\* a Debian host whose only firewall manager is iptables
IptablesHost == [DebianHost EXCEPT !.tools = @ \ {"ufw"}]

\* the hosts of a plain setup run: sound hosts, hosts that fail a
\* precondition, hosts that lack a tool, hosts on which one operation fails
SetupHosts ==
  {DebianHost, PlainDebianHost, RedHatHost, IptablesHost,
   [PlainDebianHost EXCEPT !.firewalld_state = UNKNOWN],
   [DebianHost EXCEPT !.euid = 1000],
   [DebianHost EXCEPT !.ip = "fail", !.hostname = "fail"],
   [DebianHost EXCEPT !.tools = @ \ {"systemctl"}],
   [DebianHost EXCEPT !.ufw_allow = "fail", !.iptables_fail_at = 2],
   [RedHatHost EXCEPT !.fw_fail = "reload"],
   [RedHatHost EXCEPT !.getenforce = "Unknown"]}
    \cup {[DebianHost EXCEPT !.failing = {f}] : f \in FailureKinds}
    \cup {[RedHatHost EXCEPT !.failing = {f}] : f \in {"semanage", "restorecon"}}
    \cup {[DebianHost EXCEPT !.failing = {"chown", "chmod777"}],
          [DebianHost EXCEPT !.failing = {"enable", "restart"}]}

\* the command lines and hosts of the modelled sessions
MainRuns ==
  {<<PlainSetup, h>> : h \in SetupHosts}
    \cup {<<OnlyDebug, h>> :
            h \in {DebianHost, RedHatHost,
                   [PlainDebianHost EXCEPT !.firewalld_state = UNKNOWN]}}
    \cup {<<OnlyMonitor, h>> : h \in {DebianHost, [DebianHost EXCEPT !.tools = @ \ {"tail"}]}}
    \cup {<<c, DebianHost>> : c \in CommandLines}
    \cup {<<OnlyReport, h>> :
            h \in {RedHatHost, PlainDebianHost,
                   [DebianHost EXCEPT !.ip = "fail", !.hostname = "fail"]}}

\* the text with the protocol range of __init__ instead of the selected one
config_content_default_protocols(nobody_user, nobody_group, interfaces, min_protocol, max_protocol) ==
  [kind |-> "anonymous",
   guest_account |-> nobody_user,
   interfaces |-> interfaces,
   min_protocol |-> "NT1",
   max_protocol |-> "SMB3",
   log_level |-> 1,
   debug_options |-> FALSE,
   force_user |-> nobody_user,
   force_group |-> nobody_group]

\* lines 485-528: the text of the configuration, by its settings
config_content(nobody_user, nobody_group, interfaces, min_protocol, max_protocol) ==
  [kind |-> "anonymous",
   guest_account |-> nobody_user,
   interfaces |-> interfaces,
   min_protocol |-> min_protocol,
   max_protocol |-> max_protocol,
   log_level |-> 1,
   debug_options |-> FALSE,
   force_user |-> nobody_user,
   force_group |-> nobody_group]

\* what create_samba_config of an earlier session wrote on host h with the
\* first interface bound and the protocol range of __init__
PreviousRunConf(h) ==
  LET r == get_nobody_user_group(h)
  IN IF r.kind = "return"
     THEN {config_content(r.value[1], r.value[2], "eth0", "NT1", "SMB3")}
     ELSE {}

\* what a session finds: a fresh host, a host with Samba installed, a host on
\* which the script has run before, a host with Samba installed and smb.conf
\* missing, and that last host after one session (which wrote smb.conf and
\* had nothing to copy)
FoundWorlds(h) ==
  {[share_exists |-> FALSE, packages |-> {}, smb_conf |-> NoFile,
    backup_conf |-> NoFile],
   [share_exists |-> TRUE, packages |-> {"samba"}, smb_conf |-> StockConf,
    backup_conf |-> NoFile],
   [share_exists |-> TRUE, packages |-> {"samba", "smbclient"},
    smb_conf |-> StockConf, backup_conf |-> StockConf],
   [share_exists |-> TRUE, packages |-> {"samba"}, smb_conf |-> NoFile,
    backup_conf |-> NoFile]}
  \cup {[share_exists |-> TRUE, packages |-> {"samba"}, smb_conf |-> c,
         backup_conf |-> NoFile] : c \in PreviousRunConf(h)}

\* the host as a session finds it
InitMain ==
  /\ pc = "main"
  /\ \E run \in MainRuns : args = run[1] /\ host = run[2]
  /\ \E w \in FoundWorlds(host) :
       /\ share_exists = w.share_exists
       /\ packages = w.packages
       /\ smb_conf = w.smb_conf
       /\ backup_conf = w.backup_conf
  /\ InitSession
  /\ InitCasc
  /\ steps = {}
  /\ duration = 0
  /\ share_dir = IF share_exists THEN Dir("755", <<"root", "root">>) ELSE NoDir
  /\ firewall = <<>>
  /\ selinux = {}
  /\ services = {}
  /\ reads = {}
  /\ child = "none"

\* the same dispatch with --debug tested first
main_debug_first ==
  /\ pc = "main"
  /\ pc' = IF args.debug THEN "check_root_privileges"
           ELSE IF args.report THEN "generate_debug_report"
           ELSE IF args.monitor THEN "monitor_samba_logs"
           ELSE "check_root_privileges"
  /\ duration' = IF ~args.debug /\ ~args.report /\ args.monitor
                 THEN MonitorDuration ELSE duration
  /\ UNCHANGED <<exit_status, host, share_exists, session, locals, casc, args,
                 steps, effects>>

\* lines 1479-1503: main() builds the session and dispatches on the arguments:
\* --report first, then --monitor, then setup() with or without --debug
main ==
  /\ pc = "main"
  /\ pc' = IF args.report THEN "generate_debug_report"
           ELSE IF args.monitor THEN "monitor_samba_logs"
           ELSE "check_root_privileges"
  /\ duration' = IF ~args.report /\ args.monitor THEN MonitorDuration ELSE duration
  /\ UNCHANGED <<exit_status, host, share_exists, session, locals, casc, args,
                 steps, effects>>

\* lines 157-183: what user_input can hold when the countdown is left
nb_loop_results ==
  {s \in {Strip(l) : l \in Lines} : s # <<>>} \cup {<<"1">>}

\* the same place going on to the next step of setup()
NoInterfaces_goes_on ==
  /\ pc' = "select_smb_version"
  /\ UNCHANGED <<exit_status, bind_interfaces, bind_interface_name>>

\* lines 129-132: without interfaces the session ends with status 1
NoInterfaces ==
  Exit(1) /\ UNCHANGED <<bind_interfaces, bind_interface_name>>

\* lines 122-231 as one step
select_network_binding_whole ==
  /\ pc = "select_network_binding"
  /\ \E d \in Detections(host) :
       IF d.kind = "raise"
       THEN Propagate /\ UNCHANGED <<bind_interfaces, bind_interface_name>>
       ELSE IF d.value = <<>> THEN NoInterfaces
       ELSE \E sel \in {nb_select(BuildOptions(d.value), ui) : ui \in nb_loop_results},
               d2 \in Detections(host) :
              /\ bind_interfaces' = sel.option.value
              /\ IF d2.kind = "raise"
                 THEN Propagate /\ UNCHANGED bind_interface_name
                 ELSE /\ bind_interface_name' =
                           nb_interface_name(d2.value, sel.option.value,
                                             bind_interface_name)
                      /\ pc' = "select_smb_version"
                      /\ UNCHANGED exit_status
  /\ Call("select_network_binding")
  /\ UNCHANGED <<host, share_exists, smb_min_protocol, smb_max_protocol, locals,
                 casc, args, duration, effects>>

\* lines 278-310: what user_input can hold when the loop is left
smb_loop_results == {Strip(l) : l \in Lines} \cup {<<"0">>}

\* lines 233-333 as one step
select_smb_version_whole ==
  /\ pc = "select_smb_version"
  /\ \E sel \in {smb_select(ui) : ui \in smb_loop_results} :
       /\ smb_min_protocol' = sel.min
       /\ smb_max_protocol' = sel.max
  /\ pc' = "install_samba"
  /\ Call("select_smb_version")
  /\ UNCHANGED <<exit_status, host, share_exists, bind_interfaces,
                 bind_interface_name, locals, casc, args, duration, effects>>

\* a step of setup() that forgets the selected address
StepFrame_forgets_address ==
  /\ bind_interfaces' = NoneIp
  /\ UNCHANGED <<host, share_exists, bind_interface_name, smb_min_protocol,
                 smb_max_protocol, locals, casc, args, duration>>

\* what a step of setup() leaves alone besides the host's resources
StepFrame ==
  UNCHANGED <<host, share_exists, session, locals, casc, args, duration>>

\* lines 421-462: nothing to do when 'which smbd' finds the daemon; else the
\* package manager of detect_os updates and installs, and a failure exits.
\* The package brings its stock smb.conf.
install_samba ==
  /\ pc = "install_samba"
  /\ LET w == RunChecked(host, "which", "samba" \in packages)
         os_info == detect_os(host)
     IN IF w = "FileNotFoundError"
        THEN Propagate /\ UNCHANGED <<packages, smb_conf>>
        ELSE IF w = "ok"
        THEN /\ pc' = "backup_samba_config"
             /\ UNCHANGED <<exit_status, packages, smb_conf>>
        ELSE IF os_info.package_manager \notin host.tools
        THEN Propagate /\ UNCHANGED <<packages, smb_conf>>
        ELSE IF \/ (os_info.type # "redhat" /\ Fails(host, "update"))
                \/ Fails(host, "install")
        THEN Exit(1) /\ UNCHANGED <<packages, smb_conf>>
        ELSE /\ packages' = packages \cup {"samba"}
             /\ smb_conf' = IF smb_conf = NoFile THEN StockConf ELSE smb_conf
             /\ pc' = "backup_samba_config"
             /\ UNCHANGED exit_status
  /\ Call("install_samba")
  /\ StepFrame
  /\ UNCHANGED <<backup_conf, share_dir, firewall, selinux, services, reads, child>>

\* lines 464-476: copy smb.conf to the backup once; a failed copy exits
backup_samba_config ==
  /\ pc = "backup_samba_config"
  /\ IF smb_conf # NoFile /\ backup_conf = NoFile
     THEN IF Fails(host, "copy2")
          THEN Exit(1) /\ UNCHANGED backup_conf
          ELSE /\ backup_conf' = smb_conf
               /\ pc' = "create_samba_config"
               /\ UNCHANGED exit_status
     ELSE /\ pc' = "create_samba_config"
          /\ UNCHANGED <<exit_status, backup_conf>>
  /\ Call("backup_samba_config")
  /\ StepFrame
  /\ UNCHANGED <<packages, smb_conf, share_dir, firewall, selinux, services,
                 reads, child>>

\* lines 478-536: resolve the unprivileged identity, format the text from the
\* session fields, write it in one call; a failed open or write exits, and a
\* failed write leaves the file truncated
create_samba_config ==
  /\ pc = "create_samba_config"
  /\ LET r == get_nobody_user_group(host)
     IN IF r.kind = "raise"
        THEN Propagate /\ UNCHANGED <<smb_conf, reads>>
        ELSE /\ reads' = IF bind_interface_name = NoneName
                         THEN reads \cup {"create_samba_config"} ELSE reads
             /\ IF Fails(host, "open") THEN Exit(1) /\ UNCHANGED smb_conf
                ELSE IF Fails(host, "write") THEN Exit(1) /\ smb_conf' = Truncated
                ELSE /\ smb_conf' = config_content(r.value[1], r.value[2],
                                      bind_interface_name, smb_min_protocol,
                                      smb_max_protocol)
                     /\ pc' = "set_directory_permissions"
                     /\ UNCHANGED exit_status
  /\ Call("create_samba_config")
  /\ StepFrame
  /\ UNCHANGED <<packages, backup_conf, share_dir, firewall, selinux, services, child>>

\* the same with a failed fallback ending the session
set_directory_permissions_exits ==
  /\ pc = "set_directory_permissions"
  /\ LET r == get_nobody_user_group(host)
         first == IF Fails(host, "chmod") THEN share_dir
                  ELSE Dir("755", share_dir.owner)
         done == ~Fails(host, "chmod") /\ r.kind = "return" /\ ~Fails(host, "chown")
     IN /\ share_dir' =
             IF done THEN Dir("755", r.value)
             ELSE IF ~Fails(host, "chmod777") THEN Dir("777", first.owner)
             ELSE first
        /\ IF ~done /\ Fails(host, "chmod777") THEN Exit(1)
           ELSE pc' = "configure_firewall" /\ UNCHANGED exit_status
  /\ Call("set_directory_permissions")
  /\ StepFrame
  /\ UNCHANGED <<packages, smb_conf, backup_conf, firewall, selinux,
                 services, reads, child>>

\* lines 579-609: chmod 755, the identity cascade and chown -R; any exception
\* leads to chmod 777, and a failure of that is only reported
set_directory_permissions ==
  /\ pc = "set_directory_permissions"
  /\ LET r == get_nobody_user_group(host)
         first == IF Fails(host, "chmod") THEN share_dir
                  ELSE Dir("755", share_dir.owner)
     IN share_dir' =
          IF ~Fails(host, "chmod") /\ r.kind = "return" /\ ~Fails(host, "chown")
          THEN Dir("755", r.value)
          ELSE IF ~Fails(host, "chmod777") THEN Dir("777", first.owner)
          ELSE first
  /\ pc' = "configure_firewall"
  /\ Call("set_directory_permissions")
  /\ StepFrame
  /\ UNCHANGED <<exit_status, packages, smb_conf, backup_conf, firewall, selinux,
                 services, reads, child>>

\* what configure_firewall can do on the host, over the interface detections
\* of its firewalld stage
FirewallOutcomes(h) == {configure_firewall(h, d) : d \in Detections(h)}

\* line 1417: the firewall cascade; its result is not looked at
setup_configure_firewall ==
  /\ pc = "configure_firewall"
  /\ \E fw \in FirewallOutcomes(host) :
       /\ firewall' = firewall \o fw.cmds
       /\ IF fw.kind = "raise" THEN Propagate
          ELSE pc' = "configure_selinux" /\ UNCHANGED exit_status
  /\ Call("configure_firewall")
  /\ StepFrame
  /\ UNCHANGED <<packages, smb_conf, backup_conf, share_dir, selinux, services,
                 reads, child>>

\* what 'getenforce' prints, or "fail" when it exits with an error
SelinuxStates == {"fail", "Disabled", "Enforcing", "Permissive", "Unknown"}

\* lines 903-944: the value returned and the commands that took effect; a
\* command that is not installed is caught here (line 942)
configure_selinux(h) ==
  IF "getenforce" \notin h.tools \/ h.getenforce \in {"fail", "Disabled"}
  THEN [value |-> TRUE, cmds |-> {}]
  ELSE IF h.getenforce \in {"Enforcing", "Permissive"}
  THEN IF "semanage" \notin h.tools THEN [value |-> TRUE, cmds |-> {}]
       ELSE IF Fails(h, "semanage") THEN [value |-> FALSE, cmds |-> {}]
       ELSE IF Fails(h, "restorecon")
       THEN [value |-> FALSE, cmds |-> {"semanage fcontext -a -t samba_share_t"}]
       ELSE [value |-> TRUE,
             cmds |-> {"semanage fcontext -a -t samba_share_t", "restorecon -R"}]
  ELSE [value |-> FALSE, cmds |-> {}]

\* line 1418
setup_configure_selinux ==
  /\ pc = "configure_selinux"
  /\ selinux' = selinux \cup configure_selinux(host).cmds
  /\ pc' = "test_configuration"
  /\ Call("configure_selinux")
  /\ StepFrame
  /\ UNCHANGED <<exit_status, packages, smb_conf, backup_conf, share_dir, firewall,
                 services, reads, child>>

\* lines 740-749: 'testparm -s', which comes with the samba package; a
\* configuration it rejects is only reported
test_configuration ==
  /\ pc = "test_configuration"
  /\ IF "samba" \in packages
     THEN pc' = "start_samba_services" /\ UNCHANGED exit_status
     ELSE Propagate
  /\ Call("test_configuration")
  /\ StepFrame
  /\ UNCHANGED effects

\* lines 673-716 for one unit: it runs after enable and start, or after the
\* restart that follows their failure
UnitRuns(h) == ~Fails(h, "enable") \/ ~Fails(h, "restart")

\* lines 662-738: the unit names, enable and start of each, a restart of the
\* ones that failed, the status query; no failure of systemctl exits
start_samba_services ==
  /\ pc = "start_samba_services"
  /\ LET names == get_samba_service_names(host)
     IN IF names.kind = "raise"
        THEN Propagate /\ UNCHANGED services
        ELSE /\ services' =
                  IF UnitRuns(host)
                  THEN services \cup ({names.value[1], names.value[2]} \ {NoneName})
                  ELSE services
             /\ pc' = "troubleshoot_connectivity"
             /\ UNCHANGED exit_status
  /\ Call("start_samba_services")
  /\ StepFrame
  /\ UNCHANGED <<packages, smb_conf, backup_conf, share_dir, firewall, selinux,
                 reads, child>>

\* the output of 'systemctl is-active <unit>' when the units in running run
is_active(h, unit, running) ==
  IF unit \in running THEN ACTIVE
  ELSE IF unit \in h.units THEN FAILED
  ELSE INACTIVE

\* lines 946-983 with the session holding test_ip: the result, the packages
\* afterwards and whether the bind address was read
verify_smb_connectivity(h, pkgs, test_ip) ==
  LET w == RunChecked(h, "which", "smbclient" \in pkgs)
      tool == IF detect_os(h).type = "redhat" THEN "dnf" ELSE "apt"
      test(p) ==
        IF test_ip = NoneIp
        THEN [kind |-> "raise", value |-> "TypeError", packages |-> p, read |-> TRUE]
        ELSE [kind |-> "return",
              value |-> IF Fails(h, "smbclient") THEN "False" ELSE "True",
              packages |-> p, read |-> TRUE]
  IN IF w = "FileNotFoundError"
     THEN [kind |-> "raise", value |-> w, packages |-> pkgs, read |-> FALSE]
     ELSE IF w = "ok" THEN test(pkgs)
     ELSE IF tool \notin h.tools
     THEN [kind |-> "raise", value |-> "FileNotFoundError", packages |-> pkgs,
           read |-> FALSE]
     ELSE IF Fails(h, "install smbclient")
     THEN [kind |-> "return", value |-> "False", packages |-> pkgs, read |-> FALSE]
     ELSE test(pkgs \cup {"smbclient"})

\* a method read the bind address: it is recorded when that was None
ReadAddress(method, was_read) ==
  reads' = IF was_read /\ bind_interfaces = NoneIp THEN reads \cup {method} ELSE reads

\* lines 985-1049: the status of the smb unit and its restart, then the
\* firewall cascade, SELinux and the connectivity test, each for its result
troubleshoot_connectivity ==
  /\ pc = "troubleshoot_connectivity"
  /\ LET names == get_samba_service_names(host)
     IN IF names.kind = "raise"
        THEN Propagate /\ UNCHANGED <<services, firewall, selinux, packages, reads>>
        ELSE \E d \in Detections(host) :
               LET stdout == is_active(host, names.value[1], services)
                   fw == configure_firewall(host, d)
                   v == verify_smb_connectivity(host, packages, bind_interfaces)
               IN /\ services' = IF service_status(stdout).restart /\ ~Fails(host, "restart")
                                 THEN services \cup {names.value[1]} ELSE services
                  /\ firewall' = firewall \o fw.cmds
                  /\ IF fw.kind = "raise"
                     THEN Propagate /\ UNCHANGED <<selinux, packages, reads>>
                     ELSE /\ selinux' = selinux \cup configure_selinux(host).cmds
                          /\ packages' = v.packages
                          /\ ReadAddress("verify_smb_connectivity", v.read)
                          /\ IF v.kind = "raise" THEN Propagate
                             ELSE pc' = "check_firewall_status" /\ UNCHANGED exit_status
  /\ Call("troubleshoot_connectivity")
  /\ StepFrame
  /\ UNCHANGED <<smb_conf, backup_conf, share_dir, child>>

\* lines 849-901: firewalld counts as running when "active" occurs in the
\* output of 'systemctl is-active'; firewall-cmd is then run, and only its
\* exit status is caught
check_firewall_status ==
  /\ pc = "check_firewall_status"
  /\ IF "systemctl" \notin host.tools THEN Propagate
     ELSE IF Contains(host.firewalld_state, ACTIVE) /\ "firewall-cmd" \notin host.tools
     THEN Propagate
     ELSE /\ pc' = IF args.debug THEN "enable_verbose_logging"
                   ELSE "show_connection_info"
          /\ UNCHANGED exit_status
  /\ Call("check_firewall_status")
  /\ StepFrame
  /\ UNCHANGED effects

\* lines 1064-1089: the configuration with 'log level = 3' and the debug
\* options in its global section
verbose(conf) ==
  IF conf.kind = "anonymous"
  THEN [conf EXCEPT !.log_level = 3, !.debug_options = TRUE]
  ELSE IF conf.kind \in {"truncated", "stock_verbose"} THEN conf
  ELSE [kind |-> "stock_verbose"]

\* lines 1051-1102: how the method leaves smb.conf and the units; each
\* exception is caught and reported
enable_verbose_logging(h, conf, units) ==
  LET names == get_samba_service_names(h)
  IN IF conf = NoFile \/ Fails(h, "open")
     THEN [smb_conf |-> conf, services |-> units]
     ELSE IF Fails(h, "write") THEN [smb_conf |-> Truncated, services |-> units]
     ELSE IF names.kind = "raise" \/ Fails(h, "restart")
     THEN [smb_conf |-> verbose(conf), services |-> units]
     ELSE [smb_conf |-> verbose(conf),
           services |-> units \cup ({names.value[1], names.value[2]} \ {NoneName})]

\* line 1430, in debug mode only
setup_enable_verbose_logging ==
  /\ pc = "enable_verbose_logging"
  /\ LET o == enable_verbose_logging(host, smb_conf, services)
     IN /\ smb_conf' = o.smb_conf
        /\ services' = o.services
  /\ pc' = "show_connection_info"
  /\ Call("enable_verbose_logging")
  /\ StepFrame
  /\ UNCHANGED <<exit_status, packages, backup_conf, share_dir, firewall, selinux,
                 reads, child>>

\* lines 1367-1398: prints the bind interface and address
show_connection_info ==
  /\ pc = "show_connection_info"
  /\ reads' = IF bind_interface_name = NoneName \/ bind_interfaces = NoneIp
              THEN reads \cup {"show_connection_info"} ELSE reads
  /\ pc' = "setup_reminders"
  /\ Call("show_connection_info")
  /\ StepFrame
  /\ UNCHANGED <<exit_status, packages, smb_conf, backup_conf, share_dir, firewall,
                 selinux, services, child>>

\* lines 1160-1218 when the detection has outcome d and the session holds
\* bind_ip: nothing is read without interfaces; None as an argument of ping
\* raises TypeError; 'ip route show' needs ip
check_network_connectivity(h, d, bind_ip) ==
  IF d.kind = "raise" THEN [kind |-> "raise", value |-> d.value, read |-> FALSE]
  ELSE IF d.value = <<>> THEN [kind |-> "return", value |-> "False", read |-> FALSE]
  ELSE IF bind_ip = NoneIp THEN [kind |-> "raise", value |-> "TypeError", read |-> TRUE]
  ELSE IF h.ip = "missing"
  THEN [kind |-> "raise", value |-> "FileNotFoundError", read |-> TRUE]
  ELSE [kind |-> "return", value |-> "True", read |-> TRUE]

\* what the diagnostics can do on the host, over the interface detections
ConnectivityOutcomes(h, bind_ip) ==
  {check_network_connectivity(h, d, bind_ip) : d \in Detections(h)}

\* the end of main(): the interpreter exits with status 0
Return ==
  /\ pc' = "return"
  /\ exit_status' = 0

\* lines 1434-1462 and the return to main: the reminders, in debug mode the
\* connectivity diagnostics, then the debug session or the end of main
setup_reminders ==
  /\ pc = "setup_reminders"
  /\ IF args.debug
     THEN /\ \E c \in ConnectivityOutcomes(host, bind_interfaces) :
               /\ ReadAddress("check_network_connectivity", c.read)
               /\ IF c.kind = "raise" THEN Propagate
                  ELSE pc' = "start_debug_session" /\ UNCHANGED exit_status
          /\ Call("check_network_connectivity")
     ELSE Return /\ UNCHANGED <<reads, steps>>
  /\ StepFrame
  /\ UNCHANGED <<packages, smb_conf, backup_conf, share_dir, firewall, selinux,
                 services, child>>

\* lines 1220-1314: the report needs testparm, systemctl, ip, firewall-cmd
\* and, with logs present, tail; only their exit statuses are caught.  It
\* ends with the connectivity diagnostics.
generate_debug_report(h, pkgs, logs, d, bind_ip) ==
  IF \/ "samba" \notin pkgs
     \/ get_samba_service_names(h).kind = "raise"
     \/ h.ip = "missing"
     \/ "firewall-cmd" \notin h.tools
     \/ (logs /\ "tail" \notin h.tools)
  THEN [kind |-> "raise", value |-> "FileNotFoundError", read |-> FALSE]
  ELSE check_network_connectivity(h, d, bind_ip)

\* what the report can do on the host, with and without log files
ReportOutcomes(h, pkgs, bind_ip) ==
  {generate_debug_report(h, pkgs, logs, d, bind_ip) :
     logs \in BOOLEAN, d \in Detections(h)}

\* lines 1483-1486: main() with --report
main_generate_debug_report ==
  /\ pc = "generate_debug_report"
  /\ \E r \in ReportOutcomes(host, packages, bind_interfaces) :
       /\ ReadAddress("check_network_connectivity", r.read)
       /\ IF r.kind = "raise" THEN Propagate ELSE Return
  /\ Call("generate_debug_report")
  /\ StepFrame
  /\ UNCHANGED <<packages, smb_conf, backup_conf, share_dir, firewall, selinux,
                 services, child>>

\* lines 1316-1330: verbose logging, then the menu
start_debug_session ==
  /\ pc = "start_debug_session"
  /\ LET o == enable_verbose_logging(host, smb_conf, services)
     IN /\ smb_conf' = o.smb_conf
        /\ services' = o.services
  /\ pc' = "debug_menu"
  /\ Call("start_debug_session")
  /\ StepFrame
  /\ UNCHANGED <<exit_status, packages, backup_conf, share_dir, firewall, selinux,
                 reads, child>>

\* what an action of the debug menu leaves alone besides what it names
MenuFrame ==
  UNCHANGED <<host, share_exists, session, options, remaining, elapsed, loop_exit,
              report, casc, args, smb_conf, backup_conf, share_dir, firewall,
              selinux, services>>

\* the lines typed at the menu
MenuLines ==
  {<<"1">>, <<"2">>, <<"3">>, <<"4">>, <<"5">>, <<" ", "1">>, <<"5", " ">>,
   <<>>, <<"0">>, <<"6">>, <<"a">>}

\* the lines typed for the monitor duration
DurationLines == {<<>>, <<"0">>, <<"2">>, <<"a">>, <<"-", "1">>}

\* lines 1337-1341: int(duration) if duration else 60, and 60 on ValueError
monitor_duration(text) ==
  IF text = <<>> THEN DefaultDuration
  ELSE IF ParseInt(text).ok THEN ParseInt(text).val
  ELSE DefaultDuration

\* lines 1334-1342: choice "1" asks for the duration and monitors the logs;
\* an interrupt at the second input() ends the session loop
debug_session_monitor ==
  /\ pc = "debug_menu"
  /\ \E raw \in MenuLines :
       /\ Strip(raw) = <<"1">>
       /\ user_input' = Strip(raw)
  /\ \/ \E raw2 \in DurationLines :
          /\ duration' = monitor_duration(Strip(raw2))
          /\ ev' = LineEvent(raw2)
          /\ pc' = "monitor_samba_logs"
          /\ UNCHANGED exit_status
     \/ /\ ev' = Interrupt
        /\ Return
        /\ UNCHANGED duration
  /\ MenuFrame
  /\ UNCHANGED <<steps, packages, reads, child>>

\* lines 1344-1345: choice "2"
debug_session_check_network ==
  /\ pc = "debug_menu"
  /\ \E raw \in MenuLines :
       /\ Strip(raw) = <<"2">>
       /\ user_input' = Strip(raw)
  /\ \E c \in ConnectivityOutcomes(host, bind_interfaces) :
       /\ ReadAddress("check_network_connectivity", c.read)
       /\ IF c.kind = "raise" THEN Propagate
          ELSE UNCHANGED <<pc, exit_status>>
  /\ MenuFrame
  /\ UNCHANGED <<ev, duration, steps, packages, child>>

\* lines 1347-1348: choice "3"
debug_session_report ==
  /\ pc = "debug_menu"
  /\ \E raw \in MenuLines :
       /\ Strip(raw) = <<"3">>
       /\ user_input' = Strip(raw)
  /\ \E r \in ReportOutcomes(host, packages, bind_interfaces) :
       /\ ReadAddress("check_network_connectivity", r.read)
       /\ IF r.kind = "raise" THEN Propagate
          ELSE UNCHANGED <<pc, exit_status>>
  /\ Call("generate_debug_report")
  /\ MenuFrame
  /\ UNCHANGED <<ev, duration, packages, child>>

\* lines 1350-1351: choice "4"
debug_session_verify ==
  /\ pc = "debug_menu"
  /\ \E raw \in MenuLines :
       /\ Strip(raw) = <<"4">>
       /\ user_input' = Strip(raw)
  /\ LET v == verify_smb_connectivity(host, packages, bind_interfaces)
     IN /\ packages' = v.packages
        /\ ReadAddress("verify_smb_connectivity", v.read)
        /\ IF v.kind = "raise" THEN Propagate
           ELSE UNCHANGED <<pc, exit_status>>
  /\ MenuFrame
  /\ UNCHANGED <<ev, duration, steps, child>>

\* lines 1353-1355: choice "5" leaves the loop, start_debug_session and main
debug_session_exit ==
  /\ pc = "debug_menu"
  /\ \E raw \in MenuLines :
       /\ Strip(raw) = <<"5">>
       /\ user_input' = Strip(raw)
  /\ Return
  /\ MenuFrame
  /\ UNCHANGED <<ev, duration, steps, packages, reads, child>>

\* lines 1357-1358: any other line is rejected and the menu asks again
debug_session_invalid ==
  /\ pc = "debug_menu"
  /\ \E raw \in MenuLines :
       /\ Strip(raw) \notin {<<"1">>, <<"2">>, <<"3">>, <<"4">>, <<"5">>}
       /\ user_input' = Strip(raw)
  /\ MenuFrame
  /\ UNCHANGED <<pc, exit_status, ev, duration, steps, packages, reads, child>>

\* lines 1360-1365: KeyboardInterrupt or EOFError at the menu's input()
debug_session_interrupt ==
  /\ pc = "debug_menu"
  /\ ev' = Interrupt
  /\ Return
  /\ MenuFrame
  /\ UNCHANGED <<user_input, duration, steps, packages, reads, child>>

\* what a step of monitor_samba_logs leaves alone
MonitorFrame ==
  UNCHANGED <<host, share_exists, session, options, remaining, user_input,
              report, casc, args, packages, smb_conf, backup_conf, share_dir,
              firewall, selinux, services, reads>>

\* monitor_samba_logs returns, and its locals are gone: to the end of main()
\* with --monitor, to the menu in the debug session
MonitorReturn(how) ==
  /\ loop_exit' = how
  /\ elapsed' = 0
  /\ ev' = NoEvent
  /\ duration' = 0
  /\ IF mode = "monitor" THEN Return
     ELSE pc' = "debug_menu" /\ UNCHANGED exit_status

\* lines 1111-1121 and 1139-1153: Popen(['tail', '-f', ...]) and the first
\* test of the loop; without tail the alternative logs are shown with tail,
\* which then raises a second time
monitor_samba_logs ==
  /\ pc = "monitor_samba_logs"
  /\ IF "tail" \notin host.tools
     THEN /\ \E found \in BOOLEAN :
               IF found THEN Propagate /\ UNCHANGED <<loop_exit, elapsed, ev, duration>>
               ELSE MonitorReturn("no_logs")
          /\ UNCHANGED child
     ELSE IF 0 < duration
     THEN /\ child' = "running"
          /\ elapsed' = 0
          /\ ev' = NoEvent
          /\ pc' = "monitor_poll"
          /\ UNCHANGED <<exit_status, loop_exit, duration>>
     ELSE /\ child' = "terminated"
          /\ MonitorReturn("elapsed")
  /\ Call("monitor_samba_logs")
  /\ MonitorFrame

\* lines 1125-1126 and 1136-1137: select.select waits one second and the log
\* is silent; after the last second the loop ends and process.terminate()
\* is called
monitor_samba_logs_quiet ==
  /\ pc = "monitor_poll"
  /\ IF elapsed + 1 < duration
     THEN /\ ev' = Quiet
          /\ elapsed' = elapsed + 1
          /\ UNCHANGED <<pc, exit_status, child, loop_exit, duration>>
     ELSE /\ child' = "terminated"
          /\ MonitorReturn("elapsed")
  /\ MonitorFrame
  /\ UNCHANGED steps

\* lines 1126-1130: a log line is ready and is printed at once
monitor_samba_logs_readline ==
  /\ pc = "monitor_poll"
  /\ ev' = LineEvent(<<>>)
  /\ MonitorFrame
  /\ UNCHANGED <<pc, exit_status, child, elapsed, loop_exit, duration, steps>>

\* lines 1133-1137: select.error breaks the loop, process.terminate() follows
monitor_samba_logs_select_error ==
  /\ pc = "monitor_poll"
  /\ child' = "terminated"
  /\ MonitorReturn("select_error")
  /\ MonitorFrame
  /\ UNCHANGED steps

\* KeyboardInterrupt in the loop without the cleanup of line 1158
monitor_samba_logs_interrupt_no_cleanup ==
  /\ pc = "monitor_poll"
  /\ MonitorReturn("interrupt")
  /\ MonitorFrame
  /\ UNCHANGED <<child, steps>>

\* lines 1155-1158: KeyboardInterrupt in the loop; 'process' is bound and is
\* terminated
monitor_samba_logs_interrupt ==
  /\ pc = "monitor_poll"
  /\ child' = "terminated"
  /\ MonitorReturn("interrupt")
  /\ MonitorFrame
  /\ UNCHANGED steps

NextMain ==
  \/ main
  \/ check_root_privileges
  \/ check_share_directory
  \/ select_network_binding_whole
  \/ select_smb_version_whole
  \/ install_samba
  \/ backup_samba_config
  \/ create_samba_config
  \/ set_directory_permissions
  \/ setup_configure_firewall
  \/ setup_configure_selinux
  \/ test_configuration
  \/ start_samba_services
  \/ troubleshoot_connectivity
  \/ check_firewall_status
  \/ setup_enable_verbose_logging
  \/ show_connection_info
  \/ setup_reminders
  \/ main_generate_debug_report
  \/ start_debug_session
  \/ debug_session_monitor
  \/ debug_session_check_network
  \/ debug_session_report
  \/ debug_session_verify
  \/ debug_session_exit
  \/ debug_session_invalid
  \/ debug_session_interrupt
  \/ monitor_samba_logs
  \/ monitor_samba_logs_quiet
  \/ monitor_samba_logs_readline
  \/ monitor_samba_logs_select_error
  \/ monitor_samba_logs_interrupt

SpecMain == InitMain /\ [][NextMain]_vars

\* ================================================================== claims
\* text that Python's int() accepts, for a stripped line: an optional minus
\* sign and then decimal digits
IntegerText(s) ==
  /\ s # <<>>
  /\ s # NoneLine
  /\ LET body == IF Head(s) = "-" THEN Tail(s) ELSE s
     IN body # <<>> /\ \A i \in 1..Len(body) : body[i] \in Digits

IntegerValue(s) ==
  IF Head(s) = "-" THEN 0 - DigitsVal(Tail(s)) ELSE DigitsVal(s)

\* C1: when a timed prompt runs out of time without resolving on a line, it
\* resolves to the first option: bind_interfaces is the address of the first
\* detected interface, the protocols are (NT1, SMB3).
C1_TimeoutSelectsFirst ==
  /\ (pc = "nb_done" /\ loop_exit = "timeout") =>
        (bind_interfaces = options[1].value /\ report = "selected")
  /\ (pc = "smb_done" /\ loop_exit = "timeout") =>
        (smb_min_protocol = "NT1" /\ smb_max_protocol = "SMB3")

C1_Witness ==
  /\ pc = "nb_done"
  /\ loop_exit = "timeout"
  /\ ev = Quiet
  /\ Len(options) = 2
  /\ options[1].value # options[2].value
  /\ bind_interfaces = options[1].value

\* C2 as stated: in both prompts a line that parses to k, 1 <= k <= n,
\* selects the option at 0-based index k - 1 (position k).
C2_OneBasedKeys ==
  /\ (pc = "nb_done" /\ loop_exit = "input" /\ IntegerText(user_input)
        /\ IntegerValue(user_input) \in 1..Len(options)) =>
        bind_interfaces = options[IntegerValue(user_input)].value
  /\ (pc = "smb_done" /\ loop_exit = "input" /\ IntegerText(user_input)
        /\ IntegerValue(user_input) \in 1..Len(smb_options)) =>
        /\ smb_min_protocol = smb_options[IntegerValue(user_input)].min_protocol
        /\ smb_max_protocol = smb_options[IntegerValue(user_input)].max_protocol

\* C2 amended: the keys are the ones each prompt displays.  The interface
\* prompt is 1-based (k selects 0-based index k - 1); the protocol prompt is
\* 0-based (k in 0..2 selects index k), so "2" selects SMBv3 only.
C2_KeysAsDisplayed ==
  /\ (pc = "nb_done" /\ loop_exit = "input" /\ IntegerText(user_input)
        /\ IntegerValue(user_input) \in 1..Len(options)) =>
        /\ bind_interfaces = options[IntegerValue(user_input)].value
        /\ report = "selected"
  /\ (pc = "smb_done" /\ loop_exit = "input" /\ IntegerText(user_input)
        /\ IntegerValue(user_input) \in 0..(Len(smb_options) - 1)) =>
        /\ smb_min_protocol = smb_options[IntegerValue(user_input) + 1].min_protocol
        /\ smb_max_protocol = smb_options[IntegerValue(user_input) + 1].max_protocol
        /\ report = "selected"
  /\ (pc = "smb_done" /\ loop_exit = "input" /\ user_input = <<"2">>) =>
        (smb_min_protocol = "SMB3" /\ smb_max_protocol = "SMB3")

C2_Witness ==
  /\ pc = "smb_done"
  /\ loop_exit = "input"
  /\ user_input = <<"2">>
  /\ smb_min_protocol = "SMB3"

C4_GarbageSelectsDefault ==
  [][ /\ (pc = "nb_process" /\ loop_exit = "input" /\ ~IntegerText(user_input)) =>
            /\ pc' = "nb_done"
            /\ bind_interfaces' = options[1].value
            /\ bind_interface_name' # NoneName
            /\ report' = "invalid_input"
      /\ (pc = "smb_poll" /\ ev'.kind = "line" /\ Strip(ev'.raw) # <<>>
            /\ ~IntegerText(Strip(ev'.raw))) =>
            /\ pc' = "smb_done"
            /\ smb_min_protocol' = "NT1"
            /\ smb_max_protocol' = "SMB3"
            /\ report' = "invalid_input"
      /\ (pc = "nb_done" /\ report = "invalid_input") => pc' = "select_smb_version"
      /\ (pc = "smb_done" /\ report = "invalid_input") => pc' = "install_samba"
    ]_vars

C4_Witness ==
  /\ pc = "nb_done"
  /\ report = "invalid_input"
  /\ user_input = <<"a", "2">>
  /\ Len(options) = 2
  /\ options[1].value # options[2].value
  /\ bind_interfaces = options[1].value

\* C5: an interrupt during a polling tick ends the polling, selects the first
\* option, and the session goes on to the next step of setup().
C5_InterruptSelectsDefault ==
  [][ /\ (pc = "nb_poll" /\ ev' = Interrupt) =>
            (pc' = "nb_process" /\ loop_exit' = "interrupted")
      /\ (pc = "nb_process" /\ loop_exit = "interrupted") =>
            (pc' = "nb_done" /\ bind_interfaces' = options[1].value)
      /\ (pc = "nb_done" /\ loop_exit = "interrupted") => pc' = "select_smb_version"
      /\ (pc = "smb_poll" /\ ev' = Interrupt) =>
            /\ pc' = "smb_done"
            /\ loop_exit' = "interrupted"
            /\ smb_min_protocol' = "NT1"
            /\ smb_max_protocol' = "SMB3"
      /\ (pc = "smb_done" /\ loop_exit = "interrupted") => pc' = "install_samba"
    ]_vars

C5_Witness ==
  /\ pc = "nb_done"
  /\ loop_exit = "interrupted"
  /\ ev = Interrupt
  /\ exit_status = -1
  /\ Len(options) = 2
  /\ options[1].value # options[2].value
  /\ bind_interfaces = options[1].value

\* C6: a non-empty line read at a tick before the timeout ends the polling in
\* that very tick, no later tick runs, and the prompt resolves from that
\* line: the option it designates is selected, not the timeout default.
C6_LineEndsPolling ==
  /\ [][ /\ (pc = "nb_poll" /\ ev'.kind = "line" /\ Strip(ev'.raw) # <<>>) =>
               /\ pc' = "nb_process"
               /\ loop_exit' = "input"
               /\ user_input' = Strip(ev'.raw)
         /\ (pc = "nb_process" /\ loop_exit = "input") =>
               (pc' = "nb_done" /\ user_input' = user_input)
         /\ (pc = "smb_poll" /\ ev'.kind = "line" /\ Strip(ev'.raw) # <<>>) =>
               /\ pc' = "smb_done"
               /\ loop_exit' = "input"
               /\ user_input' = Strip(ev'.raw)
               /\ elapsed' = elapsed
       ]_vars
  /\ [](/\ (pc = "nb_done" /\ loop_exit = "input" /\ user_input = <<"2">>
              /\ Len(options) >= 2) => bind_interfaces = options[2].value
        /\ (pc = "smb_done" /\ loop_exit = "input" /\ user_input = <<"1">>) =>
              smb_min_protocol = "SMB2")

C6_Witness ==
  /\ pc = "smb_done"
  /\ loop_exit = "input"
  /\ elapsed = 1
  /\ ev = LineEvent(<<"1">>)
  /\ user_input = <<"1">>
  /\ smb_min_protocol = "SMB2"

\* C7 as stated: in both prompts the polling ends before the timeout only on
\* a non-empty line or on an interrupt.
C7_OnlyNonEmptyLineEndsPolling ==
  [][ (pc \in {"nb_poll", "smb_poll"} /\ pc' # pc /\ loop_exit' # "timeout") =>
         \/ ev' = Interrupt
         \/ (ev'.kind = "line" /\ Strip(ev'.raw) # <<>>)
    ]_vars

\* C7 amended: in select_network_binding the polling ends before the timeout
\* only on a non-empty line or on an interrupt, and an empty line leaves the
\* countdown waiting; in select_smb_version every line, empty or not, ends
\* the polling, and an empty line selects option 0 (NT1, SMB3).
C7_EmptyLinePerPrompt ==
  [][ /\ (pc = "nb_poll" /\ pc' # pc /\ loop_exit' # "timeout") =>
            \/ ev' = Interrupt
            \/ (ev'.kind = "line" /\ Strip(ev'.raw) # <<>>)
      /\ (pc = "nb_poll" /\ ev'.kind = "line" /\ Strip(ev'.raw) = <<>>
            /\ remaining > 1) =>
            (pc' = "nb_poll" /\ remaining' = remaining - 1)
      /\ (pc = "smb_poll" /\ pc' # pc /\ loop_exit' # "timeout") =>
            (ev' = Interrupt \/ ev'.kind = "line")
      /\ (pc = "smb_poll" /\ ev'.kind = "line") =>
            (pc' = "smb_done" /\ loop_exit' = "input")
      /\ (pc = "smb_poll" /\ ev'.kind = "line" /\ Strip(ev'.raw) = <<>>) =>
            /\ smb_min_protocol' = "NT1"
            /\ smb_max_protocol' = "SMB3"
            /\ report' = "selected"
    ]_vars

C7_Witness ==
  /\ pc = "smb_done"
  /\ loop_exit = "input"
  /\ ev = LineEvent(<<" ">>)
  /\ user_input = <<>>
  /\ elapsed < Timeout - 1
  /\ smb_min_protocol = "NT1"

\* the candidates in the order the claims give them
C8_Pairs ==
  << <<"nobody", "nobody">>, <<"nobody", "nogroup">>,
     <<"nobody", "wheel">>, <<"nfsnobody", "nfsnobody">> >>

C8_Services == << <<"smb", "nmb">>, <<"smbd", "nmbd">>, <<"samba", "nmb">> >>

\* the probe of pair i succeeds: both commands run and exit with status 0
PairProbe(i) ==
  /\ {"id", "getent"} \subseteq host.tools
  /\ C8_Pairs[i][1] \in host.users
  /\ C8_Pairs[i][2] \in host.groups

\* the probe of service candidate i succeeds: systemctl lists its unit file
ServiceProbe(i) ==
  /\ "systemctl" \in host.tools
  /\ C8_Services[i][1] \in host.units

\* C8: a cascade returns the result of the first candidate, in list order,
\* whose probe succeeds, whatever later candidates would do.
C8_FirstCandidateWins ==
  /\ cascade = "get_nobody_user_group" =>
       \A i \in 1..Len(C8_Pairs) :
          (PairProbe(i) /\ \A j \in 1..(i - 1) : ~PairProbe(j)) =>
             result = Returned(C8_Pairs[i])
  /\ cascade = "get_samba_service_names" =>
       \A i \in 1..Len(C8_Services) :
          (ServiceProbe(i) /\ \A j \in 1..(i - 1) : ~ServiceProbe(j)) =>
             result = Returned(C8_Services[i])

C8_Witness ==
  /\ cascade = "get_nobody_user_group"
  /\ ~PairProbe(1)
  /\ PairProbe(2)
  /\ PairProbe(3)
  /\ result = Returned(<<"nobody", "nogroup">>)

\* C9 as stated: when no candidate probe succeeds the cascade returns its
\* terminal value and never fails: the current user with its primary group,
\* or root:root when that lookup fails; smbd, nmbd; the unknown apt profile.
C9_FallbackNeverFails ==
  /\ (cascade = "get_nobody_user_group" /\ \A i \in 1..Len(C8_Pairs) : ~PairProbe(i)) =>
        result = IF "id" \in host.tools /\ host.idgn = "ok"
                 THEN LET u == IF Truthy(host.sudo_user) THEN host.sudo_user
                                ELSE IF Truthy(host.user) THEN host.user
                                ELSE "root"
                      IN Returned(<<u, PrimaryGroup(u)>>)
                 ELSE Returned(<<"root", "root">>)
  /\ (cascade = "get_samba_service_names"
        /\ \A i \in 1..Len(C8_Services) : ~ServiceProbe(i)) =>
        result = Returned(<<"smbd", "nmbd">>)
  /\ (cascade = "detect_os" /\ host.markers = {}) =>
        result = Returned([type |-> "unknown", package_manager |-> "apt"])

\* C10 as stated: a probe whose command cannot be launched counts as a probe
\* that failed, and no exception reaches the caller of the cascade.
C10_UnavailableProbeIsFalse ==
  /\ (cascade = "get_nobody_user_group"
        /\ {"id", "getent"} \cap host.tools # {"id", "getent"}) => result.kind = "return"
  /\ (cascade = "get_samba_service_names" /\ "systemctl" \notin host.tools) =>
        result = Returned(<<"smbd", "nmbd">>)
  /\ (cascade = "detect_os" /\ "which" \notin host.tools) => result.kind = "return"
  /\ (cascade = "configure_firewall" /\ host.ip # "missing"
        /\ {"systemctl", "which", "firewall-cmd"} \cap host.tools
             # {"systemctl", "which", "firewall-cmd"}) => result.kind = "return"

\* ----------------------------------------------------------------- C11
\* the steps of setup() after the interface prompt
LaterSteps ==
  {"select_smb_version", "install_samba", "backup_samba_config",
   "create_samba_config", "set_directory_permissions", "configure_firewall",
   "configure_selinux", "test_configuration", "start_samba_services",
   "troubleshoot_connectivity", "check_firewall_status",
   "enable_verbose_logging", "show_connection_info"}

\* every detection on the host comes back without a usable interface
NoUsableInterface(h) ==
  \A d \in Detections(h) : d.kind = "return" /\ d.value = <<>>

\* C11: when the interface detection yields no usable interface,
\* select_network_binding ends the session with exit status 1 and no later
\* step of setup() is executed: once select_network_binding has run without
\* selecting an address, the session has exited with status 1, no later
\* step was called and no firewall, SELinux or service change was made; on a
\* host whose detections are all empty that is the only outcome.
C11_NoInterfaceEndsSession ==
  /\ ("select_network_binding" \in steps /\ bind_interfaces = NoneIp)
       => /\ pc = "exit"
          /\ exit_status = 1
          /\ steps \cap LaterSteps = {}
          /\ firewall = <<>> /\ selinux = {} /\ services = {}
          /\ \E w \in FoundWorlds(host) :
               smb_conf = w.smb_conf /\ backup_conf = w.backup_conf
  /\ ("select_network_binding" \in steps /\ NoUsableInterface(host))
       => bind_interfaces = NoneIp

\* a session on a host without a usable interface has exited with status 1
C11_Witness ==
  /\ NoUsableInterface(host)
  /\ "select_network_binding" \in steps
  /\ pc = "exit"
  /\ exit_status = 1

\* ----------------------------------------------------------------- C12
\* C12: on every path of main() the session fields bind_interfaces and
\* bind_interface_name are assigned by select_network_binding before a step
\* reads them: no method has read one of them while it held None.
C12_AssignedBeforeRead == reads = {}

\* ----------------------------------------------------------------- C13
\* C13: the resolved session facts are written once: after
\* select_network_binding has returned no step changes bind_interfaces or
\* bind_interface_name, and after select_smb_version has returned no step
\* changes smb_min_protocol or smb_max_protocol.
C13_WrittenOnce ==
  [][/\ "select_network_binding" \in steps
          => UNCHANGED <<bind_interfaces, bind_interface_name>>
     /\ "select_smb_version" \in steps
          => UNCHANGED <<smb_min_protocol, smb_max_protocol>>]_vars

\* a debug session after troubleshooting, verbose logging and a monitoring
\* run, with the selections of both prompts in place
C13_Witness ==
  /\ pc = "debug_menu"
  /\ {"select_network_binding", "select_smb_version", "troubleshoot_connectivity",
      "enable_verbose_logging", "start_debug_session", "monitor_samba_logs"}
       \subseteq steps
  /\ smb_conf.kind = "anonymous" /\ smb_conf.log_level = 3
  /\ bind_interfaces = IpB
  /\ smb_min_protocol = "SMB3"

\* ----------------------------------------------------------------- C14
\* C14: every write of smb.conf happens after select_network_binding and
\* select_smb_version have completed, and the file create_samba_config
\* writes is a complete configuration whose interfaces, min protocol and max
\* protocol equal bind_interface_name, smb_min_protocol and
\* smb_max_protocol of the session at that moment.
C14_ConfigAfterSelections ==
  [][/\ smb_conf' # smb_conf
          => {"select_network_binding", "select_smb_version"} \subseteq steps
     /\ (pc = "create_samba_config" /\ pc' = "set_directory_permissions")
          => /\ smb_conf'.kind = "anonymous"
             /\ bind_interface_name # NoneName
             /\ smb_conf'.interfaces = bind_interface_name
             /\ smb_conf'.min_protocol = smb_min_protocol
             /\ smb_conf'.max_protocol = smb_max_protocol
             /\ smb_conf'.guest_account = smb_conf'.force_user]_vars

\* create_samba_config has written a configuration for a selection that
\* differs from the defaults
C14_Witness ==
  /\ pc = "set_directory_permissions"
  /\ smb_conf.kind = "anonymous"
  /\ bind_interfaces = IpB
  /\ smb_conf.interfaces = bind_interface_name
  /\ smb_conf.min_protocol = "SMB2"

\* ----------------------------------------------------------------- C15
\* C15: once monitor_samba_logs has spawned the 'tail -f' child, every way
\* the monitoring ends (duration elapsed, select error, KeyboardInterrupt)
\* terminates the child and returns normally to the caller: to the menu of
\* the debug session or to the end of main() with status 0; the child runs
\* only while the monitoring loop does.
C15_MonitorTerminatesChild ==
  [][/\ (pc = "monitor_poll" /\ pc' # "monitor_poll")
          => /\ child' = "terminated"
             /\ loop_exit' \in {"elapsed", "select_error", "interrupt"}
             /\ IF mode = "monitor" THEN pc' = "return" /\ exit_status' = 0
                ELSE pc' = "debug_menu" /\ exit_status' = -1
     /\ child' = "running" => pc' = "monitor_poll"]_vars

\* a monitoring run of the debug session that an interrupt ended
C15_Witness ==
  /\ mode = "debug"
  /\ pc = "debug_menu"
  /\ loop_exit = "interrupt"
  /\ child = "terminated"
  /\ "monitor_samba_logs" \in steps

\* a monitoring run of --monitor that ended when its duration elapsed
C15_WitnessElapsed ==
  /\ mode = "monitor"
  /\ pc = "return"
  /\ loop_exit = "elapsed"
  /\ child = "terminated"

\* ----------------------------------------------------------------- C16
\* C16: a non-zero exit of an external tool in set_directory_permissions,
\* configure_firewall, configure_selinux, test_configuration,
\* start_samba_services or troubleshoot_connectivity never ends setup(), and
\* only a failed directory creation, Samba install, configuration backup or
\* configuration write ends the session: a session that has reached
\* set_directory_permissions does not exit before show_connection_info
\* has run.
C16_OnlyFourFailuresAreFatal ==
  (mode \in {"setup", "debug"}
     /\ "set_directory_permissions" \in steps
     /\ "show_connection_info" \notin steps)
    => pc # "exit"

\* ----------------------------------------------------------------- C17
\* the protocol ranges select_smb_version offers
ProtocolRanges ==
  {<<smb_options[i].min_protocol, smb_options[i].max_protocol>> :
     i \in 1..Len(smb_options)}

\* the addresses the interface prompt offers
OfferedAddresses == {options[i].value : i \in 1..Len(options)}

\* C17: each timed prompt resolves whatever the input sequence.  The
\* countdown of select_network_binding starts at 60 and every iteration that
\* stays in the loop uses up one, so there are at most 60 iterations; the
\* loop of select_smb_version is in its k-th second, k below 60, and is
\* left when 60 seconds have elapsed at the latest; afterwards the session
\* fields hold an offered address with an interface name and an offered
\* protocol range.
C17_PromptsResolve ==
  /\ [](/\ pc = "nb_poll" => remaining \in 1..Timeout
        /\ pc = "smb_poll" => elapsed \in 0..(Timeout - 1)
        /\ pc = "smb_done" => elapsed <= Timeout
        /\ pc = "nb_process" => user_input \in nb_loop_results
        /\ pc = "nb_done"
             => /\ bind_interfaces \in OfferedAddresses
                /\ bind_interface_name \notin {NoneName, ""}
        /\ pc = "smb_done"
             => /\ user_input \in smb_loop_results
                /\ <<smb_min_protocol, smb_max_protocol>> \in ProtocolRanges)
  /\ [][/\ (pc = "nb_poll" /\ pc' = "nb_poll") => remaining' = remaining - 1
        /\ (pc = "smb_poll" /\ pc' = "smb_poll") => elapsed' = elapsed + 1
        /\ (pc = "select_network_binding" /\ pc' = "nb_poll") => remaining' = Timeout
        /\ (pc = "select_smb_version" /\ pc' = "smb_poll") => elapsed' = 0]_vars

\* the interface prompt ran out after an empty line in its last iteration
\* and the first address was selected
C17_Witness ==
  /\ pc = "nb_done"
  /\ loop_exit = "timeout"
  /\ ev = LineEvent(<<" ">>)
  /\ Len(options) = 2
  /\ bind_interfaces = options[1].value

\* the protocol prompt was left by its timeout after 60 seconds
C17_WitnessProtocol ==
  /\ pc = "smb_done"
  /\ loop_exit = "timeout"
  /\ elapsed = Timeout
  /\ smb_min_protocol = "NT1"

\* ----------------------------------------------------------------- C18
\* C18: check_root_privileges is the first step of setup(): a session whose
\* effective user id is not 0 exits with status 1 before any other step
\* runs, and the share directory, smb.conf, its backup, the firewall, the
\* SELinux contexts and the services are as the session found them.
C18_RootCheckFirst ==
  /\ (mode \in {"setup", "debug"} /\ steps # {})
       => "check_root_privileges" \in steps
  /\ (mode \in {"setup", "debug"} /\ host.euid # 0 /\ steps # {})
       => /\ pc = "exit"
          /\ exit_status = 1
          /\ steps = {"check_root_privileges"}
          /\ share_dir = IF share_exists THEN Dir("755", <<"root", "root">>) ELSE NoDir
          /\ \E w \in FoundWorlds(host) :
               /\ share_exists = w.share_exists
               /\ smb_conf = w.smb_conf
               /\ backup_conf = w.backup_conf
               /\ packages = w.packages
          /\ firewall = <<>> /\ selinux = {} /\ services = {}

\* a session that is not root has exited on a host without the share
\* directory
C18_Witness ==
  /\ host.euid # 0
  /\ pc = "exit"
  /\ exit_status = 1
  /\ steps = {"check_root_privileges"}
  /\ ~share_exists

\* ----------------------------------------------------------------- C19
\* firewalld can be configured on the host: it is looked at, runs, and every
\* firewall-cmd command succeeds
FirewalldWorks(h) ==
  /\ detect_os(h).type # "debian"
  /\ Contains(h.firewalld_state, ACTIVE)
  /\ "firewall-cmd" \in h.tools
  /\ h.fw_fail = "none"

\* ufw is installed and 'ufw allow samba' succeeds
UfwWorks(h) == "ufw" \in h.tools /\ h.ufw_allow = "ok"

\* iptables is installed and its four rule commands succeed
IptablesWorks(h) == "iptables" \in h.tools /\ h.iptables_fail_at = 0

\* the commands of the two later managers
UfwCommands == {"ufw allow samba"}
IptablesCommands == {IptablesCmds[i] : i \in 1..Len(IptablesCmds)}

\* the commands in the sequence c
Used(c) == {c[i] : i \in 1..Len(c)}

\* C19: configure_firewall tries firewalld, ufw, iptables in this order and
\* skips firewalld on a Debian-type host; it returns True at the first
\* manager whose commands all succeed without touching a later manager, a
\* manager whose configuration fails lets the next one be tried, and it
\* returns False exactly when no manager was configured.
C19_FirewallOrder ==
  cascade = "configure_firewall" =>
    /\ result.kind = "return"
    /\ result.value = (FirewalldWorks(host) \/ UfwWorks(host) \/ IptablesWorks(host))
    /\ FirewalldWorks(host)
         => /\ cmds # <<>>
            /\ cmds[Len(cmds)] = "firewall-cmd --reload"
            /\ Used(cmds) \cap (UfwCommands \cup IptablesCommands) = {}
    /\ (~FirewalldWorks(host) /\ UfwWorks(host))
         => /\ cmds # <<>>
            /\ cmds[Len(cmds)] = "ufw allow samba"
            /\ Used(cmds) \cap IptablesCommands = {}
    /\ (~FirewalldWorks(host) /\ ~UfwWorks(host) /\ IptablesWorks(host))
         => IptablesCommands \subseteq Used(cmds)
    /\ detect_os(host).type = "debian"
         => Used(cmds) \subseteq (UfwCommands \cup IptablesCommands)

\* ----------------------------------------------------------------- C20
\* the marker files in the order they are looked for, with the package
\* manager each stands for ("dnf or yum": decided by 'which dnf')
MarkerOrder ==
  << [files |-> {DebianMarker}, manager |-> "apt"],
     [files |-> {RedhatMarker, FedoraMarker}, manager |-> "dnf"],
     [files |-> {CentosMarker}, manager |-> "dnf or yum"],
     [files |-> {ArchMarker}, manager |-> "pacman"],
     [files |-> {SuseBrandMarker, SuseReleaseMarker}, manager |-> "zypper"] >>

\* the positions of MarkerOrder with a file on the host
Present(h) == {i \in 1..Len(MarkerOrder) : MarkerOrder[i].files \cap h.markers # {}}

\* the first of them
FirstPresent(h) == CHOOSE i \in Present(h) : \A j \in Present(h) : i <= j

\* C20: detect_os always returns a profile, chosen by the first marker
\* present in the order debian_version (apt), redhat-release or
\* fedora-release (dnf), centos-release (dnf if 'which dnf' succeeds, else
\* yum), arch-release (pacman), SUSE-brand or SuSE-release (zypper); without
\* a marker, or when the detection raises, it is the unknown profile with
\* apt; yum is returned only for centos-release without an earlier marker
\* and without dnf.
C20_FirstMarkerDecides ==
  cascade = "detect_os" =>
    /\ result.kind = "return"
    /\ IF Present(host) = {}
       THEN result.value = [type |-> "unknown", package_manager |-> "apt"]
       ELSE LET manager == MarkerOrder[FirstPresent(host)].manager
            IN IF manager # "dnf or yum"
               THEN result.value.package_manager = manager
               ELSE IF "which" \notin host.tools
               THEN result.value = [type |-> "unknown", package_manager |-> "apt"]
               ELSE result.value.package_manager =
                      IF "dnf" \in host.tools THEN "dnf" ELSE "yum"
    /\ result.value.package_manager = "yum"
         => /\ CentosMarker \in host.markers
            /\ host.markers \cap {DebianMarker, RedhatMarker, FedoraMarker} = {}
            /\ "dnf" \notin host.tools
    /\ result.value.type = "unknown" <=>
         (Present(host) = {}
            \/ (FirstPresent(host) = 3 /\ "which" \notin host.tools))

\* centos-release and arch-release exist, dnf does not: yum
C20_Witness ==
  /\ cascade = "detect_os"
  /\ host.markers = {CentosMarker, ArchMarker}
  /\ "dnf" \notin host.tools
  /\ result.value = [type |-> "redhat", package_manager |-> "yum"]

\* centos-release exists and 'which' cannot be launched: unknown, apt
C20_WitnessRaise ==
  /\ cascade = "detect_os"
  /\ host.markers = {CentosMarker, SuseBrandMarker}
  /\ "which" \notin host.tools
  /\ result.value = [type |-> "unknown", package_manager |-> "apt"]

\* ----------------------------------------------------------------- C21
\* C21: the smb service is treated as running only when 'systemctl
\* is-active' reports the state 'active': for every other output
\* troubleshoot_connectivity records the issue and attempts the restart, and
\* start_samba_services does not report the service as running.
C21_RunningOnlyWhenActive ==
  cascade = "service_status" =>
    LET s == result.value
    IN /\ s.running <=> s.stdout = ACTIVE
       /\ s.stdout # ACTIVE => (s.issue /\ s.restart)

\* ----------------------------------------------------------------- C22
\* the protocol dialects, older first
ProtocolAge(p) == CASE p = "NT1" -> 1 [] p = "SMB2" -> 2 [] p = "SMB3" -> 3

\* C22: in every reachable state of a session, from construction onwards
\* and after any input to select_smb_version, (smb_min_protocol,
\* smb_max_protocol) is one of (NT1, SMB3), (SMB2, SMB3), (SMB3, SMB3), and
\* the minimum is never newer than the maximum.
C22_ProtocolRangeValid ==
  /\ <<smb_min_protocol, smb_max_protocol>>
       \in {<<"NT1", "SMB3">>, <<"SMB2", "SMB3">>, <<"SMB3", "SMB3">>}
  /\ ProtocolAge(smb_min_protocol) <= ProtocolAge(smb_max_protocol)

\* the prompt took the key 2 and selected SMBv3 only
C22_Witness ==
  /\ pc = "smb_done"
  /\ loop_exit = "input"
  /\ user_input = <<"2">>
  /\ <<smb_min_protocol, smb_max_protocol>> = <<"SMB3", "SMB3">>

\* the prompt fell back to the default range on a line that is no number
C22_WitnessGarbage ==
  /\ pc = "smb_done"
  /\ user_input = <<"a">>
  /\ report = "invalid_input"
  /\ <<smb_min_protocol, smb_max_protocol>> = <<"NT1", "SMB3">>

\* ---------------------------------------------------------------------- C23
\* C23: after select_network_binding has returned, bind_interfaces is the
\* address of the selected option and bind_interface_name is the name of the
\* interface of that same option, whatever the two detections returned.
C23_BindingIsSelectedInterface ==
  pc = "nb_done" =>
    LET selected_option == nb_select(options, user_input).option
    IN /\ bind_interfaces = selected_option.value
       /\ bind_interface_name = selected_option.description[1]

\* the half about the address alone
C23_AddressIsSelected ==
  pc = "nb_done" => bind_interfaces = nb_select(options, user_input).option.value

\* two options carry one address and the second of them was chosen
C23_SameAddressTwice ==
  /\ pc = "nb_done"
  /\ Len(options) = 2
  /\ options[1].value = options[2].value
  /\ options[1].description[1] # options[2].description[1]
  /\ user_input = <<"2">>
  /\ bind_interface_name = options[1].description[1]

\* ---------------------------------------------------------------------- C24
\* the backup is written only by copying an existing smb.conf to a backup
\* that does not exist, before create_samba_config or enable_verbose_logging
\* of the session has written smb.conf
C24_CopyStep ==
  backup_conf' # backup_conf =>
    /\ smb_conf # NoFile
    /\ backup_conf = NoFile
    /\ backup_conf' = smb_conf
    /\ smb_conf' = smb_conf
    /\ steps \cap {"create_samba_config", "enable_verbose_logging"} = {}

\* the backup, once there, holds a configuration the script did not write
C24_OriginalKept == backup_conf \in {NoFile, StockConf}

\* C24: the backup is created only when smb.conf exists and no backup exists,
\* before the first write of smb.conf in setup(); it is never overwritten, so
\* after any number of sessions it holds the configuration that existed before
\* the first one.
C24_BackupHoldsFirstConfiguration == []C24_OriginalKept /\ [][C24_CopyStep]_vars

\* the part about one session
C24_BackupOnlyOnceBeforeWrite == [][C24_CopyStep]_vars

\* a first session on a host with Samba installed and no smb.conf: the
\* configuration is written and nothing was copied
C24_FirstRunLeavesNoBackup ==
  /\ "show_connection_info" \in steps
  /\ exit_status = -1
  /\ smb_conf \in PreviousRunConf(host)
  /\ backup_conf = NoFile

\* the next session has copied what the first one wrote
C24_BackupOfOwnOutput ==
  /\ "backup_samba_config" \in steps
  /\ backup_conf \in PreviousRunConf(host)

\* ---------------------------------------------------------------------- C25
\* how often the command x stands in the sequence c
Times(c, x) == Cardinality({i \in 1..Len(c) : c[i] = x})

\* iptables is the manager that configure_firewall configures on the host
IptablesConfigured(h) ==
  \A d \in Detections(h) :
    LET fw == configure_firewall(h, d)
    IN fw.kind = "return" /\ fw.value = TRUE /\ fw.cmds = IptablesCmds

\* C25: in one run of setup() on a host where iptables is the firewall manager
\* that gets configured, each of the four ACCEPT rules for the SMB ports is
\* appended to the INPUT chain exactly once.
C25_RulesAppendedOnce ==
  (mode \in {"setup", "debug"} /\ IptablesConfigured(host)) =>
    \A i \in 1..Len(IptablesCmds) :
      /\ Times(firewall, IptablesCmds[i]) <= 1
      /\ "configure_selinux" \in steps => Times(firewall, IptablesCmds[i]) = 1

\* the rules are there once when setup() reaches troubleshoot_connectivity
C25_OnceBeforeTroubleshooting ==
  (mode \in {"setup", "debug"} /\ IptablesConfigured(host)
     /\ "configure_selinux" \in steps
     /\ "troubleshoot_connectivity" \notin steps) =>
    firewall = IptablesCmds

\* setup() has finished and every rule stands twice in the chain
C25_RulesTwice ==
  /\ mode = "setup"
  /\ IptablesConfigured(host)
  /\ "show_connection_info" \in steps
  /\ firewall = IptablesCmds \o IptablesCmds

\* ---------------------------------------------------------------------- C26
\* a text with one numeric log-level line and no debug options, or with one
\* [global] header and neither a log-level line nor debug options
PlainConfig(text) ==
  LET levels == {i \in 1..Len(text) : HasLogLevel(text[i])}
  IN /\ \A i \in 1..Len(text) : ~HasDebugTimestamp(text[i])
     /\ \A i \in levels : NumericLogLevel(text[i])
     /\ \/ Cardinality(levels) = 1
        \/ levels = {} /\ Times(text, GlobalHeader) = 1

\* C26: enable_verbose_logging applied twice leaves the text that one
\* application leaves, for every text; for a configuration with one
\* log-level line and for one with none that text has exactly one
\* 'log level = 3' line and one set of the three debug options.
C26_VerboseIdempotent ==
  cascade = "enable_verbose_logging" =>
    LET r == result.value
    IN /\ r.twice = r.once
       /\ PlainConfig(r.config) =>
            \A line \in {LogLevel3, DebugTimestamp, DebugUid, DebugPid} :
              Times(r.twice, line) = 1

\* the generated configuration, whose log level is replaced
C26_Witness ==
  /\ cascade = "enable_verbose_logging"
  /\ result.value.config = GeneratedText
  /\ result.value.twice =
       <<GlobalHeader, "workgroup = WORKGROUP"
       , LogLevel3, DebugTimestamp, DebugUid, DebugPid>>

\* a configuration without a log level, which gets the debug section
C26_WitnessNoLogLevel ==
  /\ cascade = "enable_verbose_logging"
  /\ result.value.config = <<GlobalHeader, "workgroup = WORKGROUP">>
  /\ result.value.twice =
       <<GlobalHeader>> \o debug_config \o <<"workgroup = WORKGROUP">>

\* ---------------------------------------------------------------------- C27
\* the methods a run with --report or --monitor calls
ReportSteps == {"generate_debug_report", "check_network_connectivity"}
MonitorSteps == {"monitor_samba_logs"}

\* with --report or --monitor no step changes what setup() configures
C27_FrameStep ==
  (args.report \/ args.monitor) =>
    UNCHANGED <<packages, smb_conf, backup_conf, share_dir, firewall, selinux,
                services>>

\* --report wins over --monitor, and both win over --debug
C27_Dispatch ==
  /\ args.report => steps \subseteq ReportSteps
  /\ (args.monitor /\ ~args.report) => steps \subseteq MonitorSteps
  /\ (args.report \/ args.monitor) =>
       firewall = <<>> /\ selinux = {} /\ services = {}

\* C27: with --report or with --monitor setup() is not executed (--report
\* wins over --monitor, and both win over --debug): smb.conf, its backup, the
\* share directory, the firewall rules, the SELinux contexts and the services
\* are left as they were.
C27_ReportAndMonitorChangeNothing == []C27_Dispatch /\ [][C27_FrameStep]_vars

\* a run with all three flags has written its report and nothing else
C27_Witness ==
  /\ args = CommandLine(TRUE, TRUE, TRUE)
  /\ "generate_debug_report" \in steps
  /\ pc # "generate_debug_report"

\* a run with --debug and --monitor has monitored and returned
C27_WitnessMonitor ==
  /\ args = CommandLine(TRUE, TRUE, FALSE)
  /\ steps = MonitorSteps
  /\ pc = "return"
  /\ exit_status = 0

\* ---------------------------------------------------------------------- C28
\* chmod 0755, the identity resolution and chown -R all succeed on the host
PermissionsSucceed(h) ==
  /\ ~Fails(h, "chmod")
  /\ get_nobody_user_group(h).kind = "return"
  /\ ~Fails(h, "chown")

\* C28: after set_directory_permissions the share directory has mode 0755
\* whenever chmod 0755, the identity resolution and the recursive chown all
\* succeeded; mode 0777 is applied only when one of them failed; and the
\* method never ends the session, also not when the fallback chmod fails.
C28_PermissionsFallback ==
  [][pc = "set_directory_permissions" =>
       /\ pc' = "configure_firewall"
       /\ exit_status' = exit_status
       /\ PermissionsSucceed(host) => share_dir'.mode = "755"
       /\ share_dir'.mode = "777" => ~PermissionsSucceed(host)
       /\ (~PermissionsSucceed(host) /\ ~Fails(host, "chmod777"))
            => share_dir'.mode = "777"]_vars

\* the session goes on with mode 0755 and the unprivileged owner
C28_Witness ==
  /\ pc = "configure_firewall"
  /\ PermissionsSucceed(host)
  /\ share_dir = Dir("755", <<"nobody", "nogroup">>)

\* chown failed: the directory is world-writable and the session goes on
C28_WitnessFallback ==
  /\ pc = "configure_firewall"
  /\ host.failing = {"chown"}
  /\ share_dir.mode = "777"
  /\ exit_status = -1

\* chown and the fallback chmod failed: mode 0755 of the first chmod stays
\* and the session goes on
C28_WitnessBothFail ==
  /\ pc = "configure_firewall"
  /\ host.failing = {"chown", "chmod777"}
  /\ share_dir.mode = "755"
  /\ exit_status = -1

\* ---------------------------------------------------------------------- C29
\* the menu is left
C29_LeavesMenu == pc = "debug_menu" /\ pc' # "debug_menu"

\* C29: the session loop of start_debug_session ends only on choice "5", on
\* KeyboardInterrupt at the menu prompt or on EOF; every other choice comes
\* back to the prompt, and a KeyboardInterrupt while the logs are monitored
\* ends the monitoring only.
C29_MenuEndsOnlyOnRequest ==
  [][/\ C29_LeavesMenu =>
          \/ pc' = "monitor_samba_logs"
          \/ pc' = "return" /\ user_input' = <<"5">> /\ ev' = ev
          \/ pc' = "return" /\ ev' = Interrupt /\ user_input' = user_input
     /\ (pc \in {"monitor_samba_logs", "monitor_poll"} /\ mode = "debug"
           /\ pc' \notin {"monitor_samba_logs", "monitor_poll"})
          => pc' = "debug_menu"]_vars

\* the part about the monitoring started from the menu: however its loop
\* ends, by the time, by select.error or by KeyboardInterrupt, the menu
\* asks again
C29_MonitoringReturnsToMenu ==
  [][(pc = "monitor_poll" /\ mode = "debug" /\ pc' # "monitor_poll")
       => pc' = "debug_menu" /\ exit_status' = -1]_vars

\* the report of choice "3" raised and the session has ended with status 1
C29_ActionEndsSession ==
  /\ "start_debug_session" \in steps
  /\ pc = "exit"
  /\ exit_status = 1
  /\ user_input = <<"3">>
  /\ "firewall-cmd" \notin host.tools

\* KeyboardInterrupt at the prompt for the duration has ended the session
C29_InterruptAtDuration ==
  /\ "start_debug_session" \in steps
  /\ "monitor_samba_logs" \notin steps
  /\ pc = "return"
  /\ user_input = <<"1">>
  /\ ev = Interrupt

====
